---- MODULE Spec2Model ----
(***************************************************************************)
(* A model of the YouTube placement finder: the Streamlit application      *)
(* (app.py), the older command-line paginator (youtubeV2.py) and the quota *)
(* ledger (tracker.py).                                                    *)
(*                                                                         *)
(* The remote API is the environment: each call either raises HttpError or *)
(* answers with a response drawn from a small set.  The fields of a        *)
(* details item are drawn when the code reads the item.                    *)
(***************************************************************************)
EXTENDS Integers, Sequences, FiniteSets, TLC

(***************************************************************************)
(* Bounds of the model.                                                    *)
(***************************************************************************)
\* the largest target_total / total_results_target an invocation is given
MaxTarget == 2
\* the largest number of items the remote puts on one page
MaxPageItems == 2
\* the largest number of pages get_top_videos is asked to fetch
MaxTopPages == 2
\* the largest view count of a video
MaxViews == 1
\* the largest number of channel ids get_channel_stats is given
MaxChannels == 120
\* the number of log_usage calls of a run of the model
MaxLogs == 3
\* the number of calendar days a run of the model spans
MaxDay == 2
\* the number of times the user presses Run Search
MaxRuns == 2
\* the largest Max Results the form of a session is given
MaxMainTarget == 1
\* the longest duration text handed to parse_duration
MaxDurationLen == 6
\* the number of pieces a token handed to extract_video_id is made of
MaxSegments == 3
\* the largest view, like and comment count of a flattened video
MaxCount == 3
\* the largest number of days a flattened video has been live
MaxDaysLive == 3
\* calls of get_category_map in the life of the process
MaxCategoryCalls == 4

(***************************************************************************)
(* Program constants.                                                      *)
(***************************************************************************)
\* app.py:162, youtubeV2.py:97  max_per_page = 50
max_per_page == 50
\* app.py:184  quota_cost += 100
SEARCH_COST == 100
\* app.py:194  quota_cost += 1
DETAILS_COST == 1
\* app.py:163  (target_total // 5) + 5
LOOSE_DIVISOR == 5
\* app.py:163  (target_total // 5) + 5
LOOSE_PADDING == 5
\* app.py:106-107  range(0, len(unique_ids_list), 50), [i:i + 50]
CHANNEL_BATCH == 50
\* app.py:111  quota_cost += 1
CHANNEL_COST == 1
\* tracker.py:8
DAILY_QUOTA_LIMIT == 10000

\* Python's None for a category id
None == "None"
\* Python's None for a page token; the tokens of the remote are 1, 2, ...
NoToken == 0
\* Python's None for min_views
NoMinViews == -1
\* no video: the ids of videos are <<page, place>> with page >= 1
NoItem == <<0, 0>>

Min(a, b) == IF a <= b THEN a ELSE b

\* the videos of one remote page never exceed maxResults
PageSizes == 0..Min(MaxPageItems, max_per_page)

(***************************************************************************)
(* Text.  A string is a sequence of characters.                            *)
(***************************************************************************)
\* str.lower() on one character
LowerChar(c) == CASE c = "S" -> "s" [] c = "X" -> "x" [] OTHER -> c

\* str.lower()
Lower(s) == [k \in 1..Len(s) |-> LowerChar(s[k])]

\* Python's `w in text` for strings: w is a substring of text
Contains(w, text) ==
    \E k \in 0..(Len(text) - Len(w)) : SubSeq(text, k + 1, k + Len(w)) = w

\* the titles, descriptions and channels the remote answers with
Titles == {<<"x">>, <<"S", "x">>}
\* a missing description reads as '' (app.py:199)
Descriptions == {<<>>, <<"x", "s">>}
\* the exclude_words_list values of the sidebar (app.py:345)
ExcludeLists == {<<>>, <<<<"S">>>>}
\* category ids, and the include_cat_ids lists of the multiselect (app.py:359)
Categories == {"c1", "c2"}
IncludeLists == {<<>>, <<"c1">>, <<"c1", "c2">>}
\* channel ids
Channels == {1, 2}

\* the snippets of the videos the remote holds
Snippets ==
    [title : Titles, description : Descriptions,
     categoryId : Categories \cup {None}, channelId : {1}]
\* a remote whose videos differ in their channel only
PlainSnippets ==
    [title : {<<"x">>}, description : {<<>>}, categoryId : {"c1"},
     channelId : Channels]

SeqToSet(s) == {s[k] : k \in 1..Len(s)}

VARIABLES
    \* ---- the remote API ----
    rm_snippets         \* the snippets its videos are drawn from

VARIABLES
    \* ---- search_videos (app.py:156) ----
    sv_pc,              \* where the invocation stands
    sv_args,            \* the arguments of the invocation
    sv_i,               \* the page loop's index
    sv_next_page_token, \* next_page_token
    sv_quota_cost,      \* quota_cost
    sv_all_videos,      \* all_videos
    sv_video_ids,       \* video_ids of the current page
    sv_fetched_videos,  \* fetched_videos of the current page
    sv_j,               \* position of the for-loop over fetched_videos
    sv_resp_token,      \* search_response.get("nextPageToken")
    sv_request,         \* the parameters of the last search request
    sv_result,          \* what the invocation returned
    sv_calls,           \* log of the remote calls issued, in order
    sv_page_start,      \* all_videos and quota_cost when the current page began
    sv_end              \* why the invocation ended

sv_vars == <<sv_pc, sv_args, sv_i, sv_next_page_token, sv_quota_cost,
             sv_all_videos, sv_video_ids, sv_fetched_videos, sv_j,
             sv_resp_token, sv_request, sv_result, sv_calls, sv_page_start,
             sv_end>>

VARIABLES
    \* ---- get_top_videos (youtubeV2.py:93) ----
    tv_pc,              \* where the invocation stands
    tv_args,            \* total_results_target and min_views
    tv_i,               \* the page loop's index
    tv_next_page_token, \* next_page_token
    tv_all_videos,      \* all_videos
    tv_video_ids,       \* video_ids of the current page
    tv_fetched_videos,  \* fetched_videos of the current page
    tv_j,               \* position of the for-loop over fetched_videos
    tv_above,           \* videos_above_threshold
    tv_resp_token,      \* search_response.get("nextPageToken")
    tv_request,         \* search_params of the last search call
    tv_result,          \* what the invocation returned
    tv_calls,           \* log of the remote calls issued, in order
    tv_below,           \* the first video observed below min_views, if any
    tv_end              \* why the invocation ended

tv_vars == <<tv_pc, tv_args, tv_i, tv_next_page_token, tv_all_videos,
             tv_video_ids, tv_fetched_videos, tv_j, tv_above, tv_resp_token,
             tv_request,
             tv_result, tv_calls, tv_below, tv_end>>

VARIABLES
    \* ---- get_channel_stats (app.py:93) ----
    gc_pc,               \* where the invocation stands
    gc_unique_ids_list,  \* unique_ids_list
    gc_i,                \* the batch loop's offset
    gc_quota_cost,       \* quota_cost
    gc_channel_data_map, \* the keys of channel_data_map
    gc_calls,            \* log of the remote calls issued, in order
    gc_result            \* what the invocation returned

gc_vars == <<gc_pc, gc_unique_ids_list, gc_i, gc_quota_cost,
             gc_channel_data_map, gc_calls, gc_result>>

VARIABLES
    \* ---- the quota ledger, usage_log.csv (tracker.py:7) ----
    lg_exists,          \* the file exists
    lg_rows,            \* its rows, the header row included
    today,              \* the current local calendar day
    \* ---- log_usage (tracker.py:11), one invocation per session ----
    lu_pc,              \* where each session's invocation stands
    lu_file_exists,     \* file_exists
    lu_quota_units,     \* quota_units
    lu_calls,           \* the number of invocations so far
    \* ---- estimate_daily_usage (tracker.py:42) ----
    est_result          \* what the last invocation returned, until the
                        \* ledger or the day changes

lg_vars == <<lg_exists, lg_rows, today, lu_pc, lu_file_exists, lu_quota_units,
             lu_calls, est_result>>

VARIABLES
    \* ---- main, the Placement Finder of one session (app.py:284) ----
    m_pc,               \* where the script run stands
    m_outcome,          \* how the last Run Search ended
    m_args,             \* the arguments of the search_videos call
    m_videos,           \* videos
    m_cost,             \* cost
    m_c_ids,            \* c_ids
    m_c_cost,           \* c_cost
    m_sv_cache,         \* st.cache_data of search_videos
    m_gc_cache,         \* st.cache_data of get_channel_stats
    m_runs,             \* the number of Run Search clicks so far
    m_issued,           \* the remote calls issued since the last click
    m_rows_before,      \* the length of the ledger at the last click
    m_use_shared_key,   \* use_shared_key, the checkbox of the sidebar
    m_usage,            \* what estimate_daily_usage returned to this run
    m_tool,             \* tool_mode of the last click
    m_search_topic,     \* search_topic, the Search Query box
    m_column,           \* df_upload[target_col], the uploaded tokens
    m_cat_cached        \* st.cache_data holds get_category_map's result

VARIABLES
    \* ---- batch_analyze_videos (app.py:219) ----
    ba_pc,              \* "idle", "batch", "returned"
    ba_unique_ids,      \* unique_ids
    ba_i,               \* i
    ba_quota_cost,      \* quota_cost
    ba_analyzed_data,   \* analyzed_data, a row per video answered
    ba_calls,           \* the videos().list calls issued
    ba_result           \* the pair returned

ba_vars == <<ba_pc, ba_unique_ids, ba_i, ba_quota_cost, ba_analyzed_data,
             ba_calls, ba_result>>

\* the credentials section of the sidebar
m_credentials == <<m_use_shared_key, m_usage>>

\* the widgets of the two tools
m_form == <<m_tool, m_search_topic, m_column>>

m_vars == <<m_pc, m_outcome, m_args, m_videos, m_cost, m_c_ids, m_c_cost,
            m_sv_cache, m_gc_cache, m_runs, m_issued, m_rows_before,
            m_credentials, m_form, m_cat_cached, ba_vars>>

VARIABLES
    \* ---- parse_duration (app.py:30, youtubeV2.py:36) ----
    pd_pc,              \* "idle", "called", "returned"
    pd_duration_iso,    \* duration_iso, a sequence of characters
    pd_result           \* the value returned

pd_vars == <<pd_pc, pd_duration_iso, pd_result>>

VARIABLES
    \* ---- extract_video_id (app.py:65) ----
    ev_pc,              \* "idle", "called", "returned"
    ev_is_str,          \* isinstance(url_or_id, str)
    ev_url_or_id,       \* url_or_id, a sequence of characters
    ev_result           \* the value returned, <<>> for None

ev_vars == <<ev_pc, ev_is_str, ev_url_or_id, ev_result>>

VARIABLES
    \* ---- the flattening of a video (app.py:393-430, youtubeV2.py:234-297) ----
    fl_pc,              \* "idle", "called", "returned", "raised"
    fl_video,           \* the module, the counts and the publish date
    fl_record           \* the fields of the record

fl_vars == <<fl_pc, fl_video, fl_record>>

VARIABLES
    \* ---- get_category_map and its st.cache_data (app.py:81-90) ----
    cm_pc,              \* where the invocation in progress stands
    cm_region_code,     \* region_code of the invocation in progress
    cm_cache,           \* st.cache_data of get_category_map
    cm_calls,           \* log of the videoCategories calls issued, in order
    cm_returns          \* what each invocation so far returned, in order

cm_vars == <<cm_pc, cm_region_code, cm_cache, cm_calls, cm_returns>>

\* the helper functions
fn_vars == <<pd_vars, ev_vars, fl_vars, cm_vars>>

vars == <<rm_snippets, sv_vars, tv_vars, gc_vars, lg_vars, m_vars, fn_vars>>

\* what an action of one function leaves alone
not_sv == <<rm_snippets, tv_vars, gc_vars, lg_vars, m_vars, fn_vars>>
not_tv == <<rm_snippets, sv_vars, gc_vars, lg_vars, m_vars, fn_vars>>
not_gc == <<rm_snippets, sv_vars, tv_vars, lg_vars, m_vars, fn_vars>>
not_lg == <<rm_snippets, sv_vars, tv_vars, gc_vars, m_vars, fn_vars>>
not_fn == <<rm_snippets, sv_vars, tv_vars, gc_vars, lg_vars, m_vars>>

(***************************************************************************)
(* search_videos, app.py:156-217                                           *)
(***************************************************************************)
SearchArgs ==
    [target_total : 1..MaxTarget,
     include_cat_ids : IncludeLists,
     exclude_words_list : ExcludeLists]

\* app.py:163
max_pages_to_fetch(target_total) == (target_total \div LOOSE_DIVISOR) + LOOSE_PADDING

\* before the first request, and before the return
NoRequest == [sent |-> FALSE, pageToken |-> NoToken, videoCategoryId |-> None]
NoResult == [videos |-> <<>>, cost |-> 0]

\* app.py:168-181: the parameters of the search request that matter here
SearchParams(args, token) ==
    [sent |-> TRUE, pageToken |-> token,
     videoCategoryId |-> IF Len(args.include_cat_ids) = 1
                         THEN args.include_cat_ids[1] ELSE None]

\* app.py:186-189: keep the items that carry a non-empty id.videoId; the
\* ids of a page are <<page, 1>>, <<page, 2>>, ...
ExtractVideoIds(items, page) ==
    LET Good(k) == items[k]
        F[k \in 0..Len(items)] ==
            IF k = 0 THEN <<>>
            ELSE IF Good(k) THEN Append(F[k - 1], <<page, Len(F[k - 1]) + 1>>)
            ELSE F[k - 1]
    IN F[Len(items)]

\* raw search pages: each item says whether it carries a well-formed id
RawPages == UNION {[1..n -> BOOLEAN] : n \in PageSizes}

\* the details answer holds at most one video per id asked for; a video is
\* named by its place in the answer
DetailsAnswers(ids, page) ==
    {[k \in 1..n |-> <<page, k>>] : n \in 0..Len(ids)}

\* a details item as the filter loop reads it
Videos(id) ==
    {[id |-> id, has_snippet |-> TRUE, has_title |-> TRUE, title |-> sn.title,
      description |-> sn.description, categoryId |-> sn.categoryId,
      channelId |-> sn.channelId] : sn \in rm_snippets}
    \cup
    [id : {id}, has_snippet : BOOLEAN, has_title : {FALSE}, title : {<<>>},
     description : {<<>>}, categoryId : {None}, channelId : {0}]

\* app.py:198: video['snippet']['title'] raises KeyError without the keys
RaisesKeyError(video) == ~video.has_snippet \/ ~video.has_title

\* app.py:198-203: any(w.lower() in title or w.lower() in desc ...)
MatchesExcludeWordInTitle(video, exclude_words_list) ==
    \E k \in 1..Len(exclude_words_list) :
       Contains(Lower(exclude_words_list[k]), Lower(video.title))

MatchesExcludeWord(video, exclude_words_list) ==
    LET title == Lower(video.title)
        desc == Lower(video.description)
    IN \E k \in 1..Len(exclude_words_list) :
          \/ Contains(Lower(exclude_words_list[k]), title)
          \/ Contains(Lower(exclude_words_list[k]), desc)

\* app.py:206-208: include_cat_ids and vid_cat not in include_cat_ids
OutsideIncludedCategoriesNever(video, include_cat_ids) == FALSE

OutsideIncludedCategories(video, include_cat_ids) ==
    /\ Len(include_cat_ids) > 0
    /\ video.categoryId \notin SeqToSet(include_cat_ids)

\* app.py:211: len(all_videos) >= target_total
TargetReachedNever(all_videos, target_total) == FALSE

TargetReached(all_videos, target_total) == Len(all_videos) >= target_total

\* app.py:211: all_videos[:target_total]
TruncateDropsFirst(all_videos, target_total) ==
    SubSeq(all_videos, 2, Len(all_videos))

Truncate(all_videos, target_total) ==
    SubSeq(all_videos, 1, Min(Len(all_videos), target_total))

SvReturn(videos, cost, why) ==
    /\ sv_pc' = "returned"
    /\ sv_result' = [videos |-> videos, cost |-> cost]
    /\ sv_end' = why

\* the locals of search_videos before its first statement, in program
\* state pc
SvFresh(pc, args) ==
    /\ sv_pc' = pc
    /\ sv_args' = args
    /\ sv_i' = 0
    /\ sv_next_page_token' = NoToken
    /\ sv_quota_cost' = 0
    /\ sv_all_videos' = <<>>
    /\ sv_video_ids' = <<>>
    /\ sv_fetched_videos' = <<>>
    /\ sv_j' = 0
    /\ sv_resp_token' = NoToken
    /\ sv_request' = NoRequest
    /\ sv_result' = NoResult
    /\ sv_calls' = <<>>
    /\ sv_page_start' = [videos |-> <<>>, cost |-> 0]
    /\ sv_end' = None

\* the state of a fresh invocation, app.py:160-164
SvEnter(args) == SvFresh("search", args)

\* app.py:183, the search call raises HttpError: caught at app.py:216
SV_SearchFails ==
    /\ UNCHANGED not_sv
    /\ sv_pc = "search"
    /\ sv_request' = SearchParams(sv_args, sv_next_page_token)
    /\ sv_calls' = Append(sv_calls, [api |-> "search", page |-> sv_i + 1, ok |-> FALSE])
    /\ sv_page_start' = [videos |-> sv_all_videos, cost |-> sv_quota_cost]
    /\ SvReturn(sv_all_videos, sv_quota_cost, "error")
    /\ UNCHANGED <<sv_args, sv_i, sv_next_page_token, sv_quota_cost, sv_all_videos,
                   sv_video_ids, sv_fetched_videos, sv_j, sv_resp_token>>

\* app.py:168-191, the search call answers
SV_Search ==
    /\ UNCHANGED not_sv
    /\ sv_pc = "search"
    /\ \E items \in RawPages, token \in {NoToken, sv_i + 1} :
          LET ids == ExtractVideoIds(items, sv_i + 1) IN
          /\ sv_request' = SearchParams(sv_args, sv_next_page_token)
          /\ sv_calls' = Append(sv_calls, [api |-> "search", page |-> sv_i + 1, ok |-> TRUE])
          /\ sv_page_start' = [videos |-> sv_all_videos, cost |-> sv_quota_cost]
          /\ sv_quota_cost' = sv_quota_cost + SEARCH_COST
          /\ sv_video_ids' = ids
          /\ sv_resp_token' = token
          /\ IF ids = <<>>
             THEN SvReturn(sv_all_videos, sv_quota_cost + SEARCH_COST, "empty")
             ELSE /\ sv_pc' = "details"
                  /\ UNCHANGED <<sv_result, sv_end>>
    /\ UNCHANGED <<sv_args, sv_i, sv_next_page_token, sv_all_videos,
                   sv_fetched_videos, sv_j>>

\* app.py:193, the details call raises HttpError: caught at app.py:216
SV_DetailsFails ==
    /\ UNCHANGED not_sv
    /\ sv_pc = "details"
    /\ sv_calls' = Append(sv_calls, [api |-> "videos", page |-> sv_i + 1, ok |-> FALSE])
    /\ SvReturn(sv_all_videos, sv_quota_cost, "error")
    /\ UNCHANGED <<sv_args, sv_i, sv_next_page_token, sv_quota_cost, sv_all_videos,
                   sv_video_ids, sv_fetched_videos, sv_j, sv_resp_token,
                   sv_request, sv_page_start>>

\* app.py:193-196, the details call answers
SV_Details ==
    /\ UNCHANGED not_sv
    /\ sv_pc = "details"
    /\ \E fetched \in DetailsAnswers(sv_video_ids, sv_i + 1) :
          /\ sv_fetched_videos' = fetched
          /\ sv_j' = 1
    /\ sv_calls' = Append(sv_calls, [api |-> "videos", page |-> sv_i + 1, ok |-> TRUE])
    /\ sv_quota_cost' = sv_quota_cost + DETAILS_COST
    /\ sv_pc' = "filter"
    /\ UNCHANGED <<sv_args, sv_i, sv_next_page_token, sv_all_videos, sv_video_ids,
                   sv_resp_token, sv_request, sv_result, sv_page_start, sv_end>>

\* app.py:197-211, one turn of the loop over fetched_videos
SV_Filter ==
    /\ UNCHANGED not_sv
    /\ sv_pc = "filter"
    /\ sv_j <= Len(sv_fetched_videos)
    /\ \E video \in Videos(sv_fetched_videos[sv_j]) :
          IF RaisesKeyError(video)
          THEN /\ sv_pc' = "raised"
               /\ sv_end' = "KeyError"
               /\ UNCHANGED <<sv_all_videos, sv_j, sv_result>>
          ELSE IF \/ MatchesExcludeWord(video, sv_args.exclude_words_list)
                  \/ OutsideIncludedCategories(video, sv_args.include_cat_ids)
          THEN /\ sv_j' = sv_j + 1
               /\ UNCHANGED <<sv_pc, sv_all_videos, sv_result, sv_end>>
          ELSE LET appended == Append(sv_all_videos, video) IN
               /\ sv_all_videos' = appended
               /\ sv_j' = sv_j + 1
               /\ IF TargetReached(appended, sv_args.target_total)
                  THEN SvReturn(Truncate(appended, sv_args.target_total),
                                sv_quota_cost, "target")
                  ELSE UNCHANGED <<sv_pc, sv_result, sv_end>>
    /\ UNCHANGED <<sv_args, sv_i, sv_next_page_token, sv_quota_cost, sv_video_ids,
                   sv_fetched_videos, sv_resp_token, sv_request, sv_calls,
                   sv_page_start>>

\* app.py:213-214 and the end of the range at app.py:167
SV_NextPage ==
    /\ UNCHANGED not_sv
    /\ sv_pc = "filter"
    /\ sv_j > Len(sv_fetched_videos)
    /\ sv_next_page_token' = sv_resp_token
    /\ IF sv_resp_token = NoToken
       THEN /\ SvReturn(sv_all_videos, sv_quota_cost, "no_token")
            /\ UNCHANGED sv_i
       ELSE IF sv_i + 1 >= max_pages_to_fetch(sv_args.target_total)
       THEN /\ SvReturn(sv_all_videos, sv_quota_cost, "budget")
            /\ UNCHANGED sv_i
       ELSE /\ sv_i' = sv_i + 1
            /\ sv_pc' = "search"
            /\ UNCHANGED <<sv_result, sv_end>>
    /\ UNCHANGED <<sv_args, sv_quota_cost, sv_all_videos, sv_video_ids,
                   sv_fetched_videos, sv_j, sv_resp_token, sv_request, sv_calls,
                   sv_page_start>>

(***************************************************************************)
(* get_top_videos, youtubeV2.py:93-161                                     *)
(***************************************************************************)
\* targets that need 1..MaxTopPages pages
TopTargets ==
    {(p - 1) * max_per_page + r : p \in 1..MaxTopPages, r \in 1..MaxTarget}

TopArgs ==
    [total_results_target : TopTargets,
     min_views : {NoMinViews} \cup (0..MaxViews)]

\* youtubeV2.py:98
pages_to_fetch(total_results_target) ==
    (total_results_target + max_per_page - 1) \div max_per_page

\* youtubeV2.py:124: item["id"]["videoId"] raises KeyError on an item
\* without the keys
TopRaisesKeyError(items) == \E k \in 1..Len(items) : ~items[k]

\* youtubeV2.py:134: the details answer, each video with its statistics;
\* a missing viewCount reads as 0 (youtubeV2.py:140)
TopDetailsAnswers(ids, page) ==
    UNION {[1..n -> 0..MaxViews] : n \in 0..Len(ids)}

TopVideos(views, page) ==
    [k \in 1..Len(views) |-> [id |-> <<page, k>>, viewCount |-> views[k]]]

\* youtubeV2.py:141
AboveThresholdAlways(video, min_views) == TRUE

AboveThreshold(video, min_views) == video.viewCount >= min_views

\* youtubeV2.py:161: all_videos if all_videos else None
PartialOrNone(all_videos) ==
    [is_none |-> (all_videos = <<>>), videos |-> all_videos]

\* youtubeV2.py:114-120: the parameters of the search request that matter
\* here
TopSearchParamsNoToken(token) == [sent |-> TRUE, pageToken |-> NoToken]

TopSearchParams(token) == [sent |-> TRUE, pageToken |-> token]

\* before the first request
NoTopRequest == [sent |-> FALSE, pageToken |-> NoToken]

TvReturn(result, why) ==
    /\ tv_pc' = "returned"
    /\ tv_result' = result
    /\ tv_end' = why

\* youtubeV2.py:154-158, after the videos of a page were added
TvEndOfPage(all_videos) ==
    /\ tv_next_page_token' = tv_resp_token
    /\ IF tv_resp_token = NoToken
       THEN /\ TvReturn([is_none |-> FALSE, videos |-> all_videos], "no_token")
            /\ UNCHANGED tv_i
       ELSE IF tv_i + 1 >= pages_to_fetch(tv_args.total_results_target)
       THEN /\ TvReturn([is_none |-> FALSE, videos |-> all_videos], "budget")
            /\ UNCHANGED tv_i
       ELSE /\ tv_i' = tv_i + 1
            /\ tv_pc' = "search"
            /\ UNCHANGED <<tv_result, tv_end>>

\* youtubeV2.py:122, the search call raises HttpError: caught at line 159
TV_SearchFails ==
    /\ UNCHANGED not_tv
    /\ tv_pc = "search"
    /\ tv_request' = TopSearchParams(tv_next_page_token)
    /\ tv_calls' = Append(tv_calls, [api |-> "search", page |-> tv_i + 1, ok |-> FALSE])
    /\ TvReturn(PartialOrNone(tv_all_videos), "error")
    /\ UNCHANGED <<tv_args, tv_i, tv_next_page_token, tv_all_videos, tv_video_ids,
                   tv_fetched_videos, tv_j, tv_above, tv_resp_token, tv_below>>

\* youtubeV2.py:114-127, the search call answers
TV_Search ==
    /\ UNCHANGED not_tv
    /\ tv_pc = "search"
    /\ \E items \in RawPages, token \in {NoToken, tv_i + 1} :
          /\ tv_request' = TopSearchParams(tv_next_page_token)
          /\ tv_calls' = Append(tv_calls, [api |-> "search", page |-> tv_i + 1, ok |-> TRUE])
          /\ tv_resp_token' = token
          /\ IF TopRaisesKeyError(items)
             THEN /\ tv_pc' = "raised"
                  /\ tv_end' = "KeyError"
                  /\ UNCHANGED <<tv_video_ids, tv_result>>
             ELSE /\ tv_video_ids' = ExtractVideoIds(items, tv_i + 1)
                  /\ IF items = <<>>
                     THEN TvReturn([is_none |-> FALSE, videos |-> tv_all_videos], "empty")
                     ELSE /\ tv_pc' = "details"
                          /\ UNCHANGED <<tv_result, tv_end>>
    /\ UNCHANGED <<tv_args, tv_i, tv_next_page_token, tv_all_videos,
                   tv_fetched_videos, tv_j, tv_above, tv_below>>

\* youtubeV2.py:129, the details call raises HttpError: caught at line 159
TV_DetailsFails ==
    /\ UNCHANGED not_tv
    /\ tv_pc = "details"
    /\ tv_calls' = Append(tv_calls, [api |-> "videos", page |-> tv_i + 1, ok |-> FALSE])
    /\ TvReturn(PartialOrNone(tv_all_videos), "error")
    /\ UNCHANGED <<tv_args, tv_i, tv_next_page_token, tv_all_videos, tv_video_ids,
                   tv_fetched_videos, tv_j, tv_above, tv_resp_token, tv_below,
                   tv_request>>

\* youtubeV2.py:129-138 and 151-157, the details call answers; without
\* min_views the whole page is added at once
TV_Details ==
    /\ UNCHANGED not_tv
    /\ tv_pc = "details"
    /\ tv_calls' = Append(tv_calls, [api |-> "videos", page |-> tv_i + 1, ok |-> TRUE])
    /\ \E views \in TopDetailsAnswers(tv_video_ids, tv_i + 1) :
          LET fetched == TopVideos(views, tv_i + 1) IN
          /\ tv_fetched_videos' = fetched
          /\ IF tv_args.min_views # NoMinViews
             THEN /\ tv_pc' = "filter"
                  /\ tv_j' = 1
                  /\ tv_above' = <<>>
                  /\ UNCHANGED <<tv_i, tv_next_page_token, tv_all_videos,
                                 tv_result, tv_end>>
             ELSE /\ tv_all_videos' = tv_all_videos \o fetched
                  /\ TvEndOfPage(tv_all_videos \o fetched)
                  /\ UNCHANGED <<tv_j, tv_above>>
    /\ UNCHANGED <<tv_args, tv_video_ids, tv_resp_token, tv_below, tv_request>>

\* youtubeV2.py:143-148: the first video below the threshold ends the run
StopAtBelowThresholdSkips ==
    /\ tv_j' = tv_j + 1
    /\ UNCHANGED <<tv_pc, tv_all_videos, tv_result, tv_end>>

StopAtBelowThreshold ==
    /\ tv_all_videos' = tv_all_videos \o tv_above
    /\ TvReturn([is_none |-> FALSE, videos |-> tv_all_videos \o tv_above], "below")
    /\ UNCHANGED tv_j

\* youtubeV2.py:139-148, one turn of the loop over fetched_videos
TV_Filter ==
    /\ UNCHANGED not_tv
    /\ tv_pc = "filter"
    /\ tv_j <= Len(tv_fetched_videos)
    /\ LET video == tv_fetched_videos[tv_j] IN
       IF AboveThreshold(video, tv_args.min_views)
       THEN /\ tv_above' = Append(tv_above, video)
            /\ tv_j' = tv_j + 1
            /\ UNCHANGED <<tv_pc, tv_all_videos, tv_result, tv_end, tv_below>>
       ELSE /\ tv_below' = IF tv_below = NoItem THEN video.id ELSE tv_below
            /\ StopAtBelowThreshold
            /\ UNCHANGED tv_above
    /\ UNCHANGED <<tv_args, tv_i, tv_next_page_token, tv_video_ids,
                   tv_fetched_videos, tv_resp_token, tv_calls, tv_request>>

\* youtubeV2.py:150 and 154-158, the loop over fetched_videos is over
TV_NextPage ==
    /\ UNCHANGED not_tv
    /\ tv_pc = "filter"
    /\ tv_j > Len(tv_fetched_videos)
    /\ tv_all_videos' = tv_all_videos \o tv_above
    /\ TvEndOfPage(tv_all_videos \o tv_above)
    /\ UNCHANGED <<tv_args, tv_video_ids, tv_fetched_videos, tv_j, tv_above,
                   tv_resp_token, tv_calls, tv_below, tv_request>>

\* get_top_videos is not running
TvIdle ==
    /\ tv_pc = "idle"
    /\ tv_args = [total_results_target |-> 1, min_views |-> NoMinViews]
    /\ tv_i = 0
    /\ tv_next_page_token = NoToken
    /\ tv_all_videos = <<>>
    /\ tv_video_ids = <<>>
    /\ tv_fetched_videos = <<>>
    /\ tv_j = 0
    /\ tv_above = <<>>
    /\ tv_resp_token = NoToken
    /\ tv_request = NoTopRequest
    /\ tv_result = [is_none |-> TRUE, videos |-> <<>>]
    /\ tv_calls = <<>>
    /\ tv_below = NoItem
    /\ tv_end = None

(***************************************************************************)
(* get_channel_stats, app.py:93-153                                        *)
(***************************************************************************)
\* app.py:107: unique_ids_list[i:i + 50], with positions counted from 0
Batch(unique_ids_list, i) ==
    SubSeq(unique_ids_list, i + 1, Min(Len(unique_ids_list), i + CHANNEL_BATCH))

\* app.py:113: the channels the remote knows among those asked for
FoundSets(batch_ids) ==
    {SeqToSet(batch_ids), SeqToSet(Tail(batch_ids)), {}}

GcReturn(map, cost) ==
    /\ gc_pc' = "returned"
    /\ gc_result' = [map |-> map, cost |-> cost]

\* app.py:106, the end of one turn of the batch loop
GcEndOfBatchAborts(map, cost) ==
    /\ GcReturn(map, cost)
    /\ UNCHANGED gc_i

GcEndOfBatch(map, cost) ==
    IF gc_i + CHANNEL_BATCH >= Len(gc_unique_ids_list)
    THEN /\ GcReturn(map, cost)
         /\ UNCHANGED gc_i
    ELSE /\ gc_i' = gc_i + CHANNEL_BATCH
         /\ UNCHANGED <<gc_pc, gc_result>>

\* app.py:98-104
GC_Start ==
    /\ UNCHANGED not_gc
    /\ gc_pc = "called"
    /\ gc_i' = 0
    /\ gc_quota_cost' = 0
    /\ gc_channel_data_map' = {}
    /\ gc_calls' = <<>>
    /\ IF gc_unique_ids_list = <<>>
       THEN GcReturn({}, 0)
       ELSE /\ gc_pc' = "batch"
            /\ UNCHANGED gc_result
    /\ UNCHANGED gc_unique_ids_list

\* app.py:107-110 and 152, the channels call raises HttpError: pass
GC_BatchFails ==
    /\ UNCHANGED not_gc
    /\ gc_pc = "batch"
    /\ gc_calls' = Append(gc_calls, [ids |-> Batch(gc_unique_ids_list, gc_i), ok |-> FALSE, found |-> {}])
    /\ GcEndOfBatch(gc_channel_data_map, gc_quota_cost)
    /\ UNCHANGED <<gc_unique_ids_list, gc_quota_cost, gc_channel_data_map>>

\* app.py:107-151, the channels call answers
GC_Batch ==
    /\ UNCHANGED not_gc
    /\ gc_pc = "batch"
    /\ LET batch_ids == Batch(gc_unique_ids_list, gc_i) IN
       \E found \in FoundSets(batch_ids) :
          /\ gc_calls' = Append(gc_calls, [ids |-> batch_ids, ok |-> TRUE,
                                            found |-> found])
          /\ gc_quota_cost' = gc_quota_cost + CHANNEL_COST
          /\ gc_channel_data_map' = gc_channel_data_map \cup found
          /\ GcEndOfBatch(gc_channel_data_map \cup found, gc_quota_cost + CHANNEL_COST)
    /\ UNCHANGED gc_unique_ids_list

\* get_channel_stats is not running
GcIdle ==
    /\ gc_pc = "idle"
    /\ gc_unique_ids_list = <<>>
    /\ gc_i = 0
    /\ gc_quota_cost = 0
    /\ gc_channel_data_map = {}
    /\ gc_calls = <<>>
    /\ gc_result = [map |-> {}, cost |-> 0]

(***************************************************************************)
(* The quota ledger: log_usage and estimate_daily_usage, tracker.py        *)
(***************************************************************************)
\* the sessions (users) of the deployment, each its own thread
Sessions == {"s1", "s2"}

\* the quota_units a caller hands to log_usage
LogUnits == {0, 4000, 11000}

\* tracker.py:22-23, the header row; read back as data its Timestamp is the
\* text "Timestamp" and its Quota_Units the text "Quota_Units"
HeaderRow == [header |-> TRUE, day |-> 0, units |-> 0]

\* tracker.py:26-27, a log row
DataRow(day, quota_units) == [header |-> FALSE, day |-> day, units |-> quota_units]

\* tracker.py:53: pd.to_datetime raises on a value that is no timestamp
TimestampParses(row) == ~row.header

\* tracker.py:54: pd.to_numeric(errors='coerce').fillna(0)
NumericUnits(row) == IF row.header THEN 0 ELSE row.units

\* tracker.py:56-61: the sum of Quota_Units over the rows of today
SumToday(rows, day) ==
    LET F[k \in 0..Len(rows)] ==
            IF k = 0 THEN 0
            ELSE IF rows[k].day = day THEN F[k - 1] + NumericUnits(rows[k])
            ELSE F[k - 1]
    IN F[Len(rows)]

\* tracker.py:63: min(units_used_today / DAILY_QUOTA_LIMIT, 1.0), a ratio
PercentUsed(units_used_today) ==
    IF units_used_today <= DAILY_QUOTA_LIMIT
    THEN [num |-> units_used_today, den |-> DAILY_QUOTA_LIMIT]
    ELSE [num |-> 1, den |-> 1]

\* the shapes of a return value: a bare float, or a (float, int) pair
BareFloat(frac) == [shape |-> "float", percent |-> frac, units |-> 0]
Pair(frac, units) == [shape |-> "pair", percent |-> frac, units |-> units]
Zero == [num |-> 0, den |-> 1]
NoEstimate == [shape |-> "none", percent |-> Zero, units |-> 0]

\* tracker.py:50: read_csv takes the first row for the column names and
\* raises on an empty file; tracker.py:53 raises KeyError without the
\* Timestamp column
ReadCsvFails(rows) == rows = <<>> \/ ~rows[1].header

\* tracker.py:42-67
estimate_daily_usage(exists, rows, day) ==
    IF ~exists THEN BareFloat(Zero)
    ELSE IF ReadCsvFails(rows) THEN Pair(Zero, 0)
    ELSE IF \E k \in 2..Len(rows) : ~TimestampParses(rows[k]) THEN Pair(Zero, 0)
    ELSE LET units_used_today == SumToday(Tail(rows), day)
         IN Pair(PercentUsed(units_used_today), units_used_today)

\* tracker.py:11, log_usage is entered with its arguments
LuEnter(s, quota_units) ==
    /\ lu_quota_units' = [lu_quota_units EXCEPT ![s] = quota_units]
    /\ lu_pc' = [lu_pc EXCEPT ![s] = "check"]
    /\ lu_calls' = lu_calls + 1
    /\ UNCHANGED <<lg_exists, lg_rows, today, lu_file_exists, est_result>>

\* a caller of log_usage enters it
LU_Call(s) ==
    /\ UNCHANGED not_lg
    /\ lu_pc[s] = "idle"
    /\ lu_calls < MaxLogs
    /\ \E quota_units \in LogUnits : LuEnter(s, quota_units)

\* tracker.py:16
LU_Check(s) ==
    /\ UNCHANGED not_lg
    /\ lu_pc[s] = "check"
    /\ lu_file_exists' = [lu_file_exists EXCEPT ![s] = lg_exists]
    /\ lu_pc' = [lu_pc EXCEPT ![s] = "open"]
    /\ UNCHANGED <<lg_exists, lg_rows, today, lu_quota_units, lu_calls, est_result>>

\* tracker.py:18: open(mode='a') creates the file
LU_Open(s) ==
    /\ UNCHANGED not_lg
    /\ lu_pc[s] = "open"
    /\ lg_exists' = TRUE
    /\ lu_pc' = [lu_pc EXCEPT ![s] = "write"]
    /\ est_result' = NoEstimate
    /\ UNCHANGED <<lg_rows, today, lu_file_exists, lu_quota_units, lu_calls>>

\* tracker.py:18 and 29-30: the file cannot be opened, the error is printed
LU_OpenFails(s) ==
    /\ UNCHANGED not_lg
    /\ lu_pc[s] = "open"
    /\ lu_pc' = [lu_pc EXCEPT ![s] = "idle"]
    /\ UNCHANGED <<lg_exists, lg_rows, today, lu_file_exists, lu_quota_units,
                   lu_calls, est_result>>

\* the file opened with mode='w' instead
TruncatedFile(rows, file_exists, row) ==
    (IF file_exists THEN <<>> ELSE <<HeaderRow>>) \o <<row>>

\* tracker.py:18-27, mode='a': the header if the file was not there at
\* line 16, then the row, after what the file holds
AppendedFile(rows, file_exists, row) ==
    (IF file_exists THEN rows ELSE Append(rows, HeaderRow)) \o <<row>>

\* tracker.py:19-30: writing or closing the file raises, the error is
\* printed and nothing has reached the file
LU_WriteFails(s) ==
    /\ UNCHANGED not_lg
    /\ lu_pc[s] = "write"
    /\ lu_pc' = [lu_pc EXCEPT ![s] = "idle"]
    /\ UNCHANGED <<lg_exists, lg_rows, today, lu_file_exists, lu_quota_units,
                   lu_calls, est_result>>

\* tracker.py:19-27: the rows reach the file in one write when the with
\* block closes it
LU_Write(s) ==
    /\ UNCHANGED not_lg
    /\ lu_pc[s] = "write"
    /\ lg_rows' = AppendedFile(lg_rows, lu_file_exists[s], DataRow(today, lu_quota_units[s]))
    /\ lu_pc' = [lu_pc EXCEPT ![s] = "idle"]
    /\ est_result' = NoEstimate
    /\ UNCHANGED <<lg_exists, today, lu_file_exists, lu_quota_units, lu_calls>>

\* tracker.py:42-67, called at app.py:306
Estimate ==
    /\ UNCHANGED not_lg
    /\ est_result' = estimate_daily_usage(lg_exists, lg_rows, today)
    /\ UNCHANGED <<lg_exists, lg_rows, today, lu_pc, lu_file_exists,
                   lu_quota_units, lu_calls>>

\* midnight
Tick ==
    /\ UNCHANGED not_lg
    /\ today < MaxDay
    /\ today' = today + 1
    /\ est_result' = NoEstimate
    /\ UNCHANGED <<lg_exists, lg_rows, lu_pc, lu_file_exists, lu_quota_units,
                   lu_calls>>

\* no ledger file, nobody in log_usage
LgStart ==
    /\ lg_exists = FALSE
    /\ lg_rows = <<>>
    /\ today = 1
    /\ lu_pc = [s \in Sessions |-> "idle"]
    /\ lu_file_exists = [s \in Sessions |-> FALSE]
    /\ lu_quota_units = [s \in Sessions |-> 0]
    /\ lu_calls = 0
    /\ est_result = NoEstimate

(***************************************************************************)
(* batch_analyze_videos, app.py:219-281                                    *)
(***************************************************************************)
\* app.py:225, the batch size
ANALYZE_BATCH == 50
\* app.py:231, the units of one videos().list call
ANALYZE_COST == 1

\* app.py:223, list(set(video_ids)): the ids in some order
SomeSeq(S) == CHOOSE q \in [1..Cardinality(S) -> S] : {q[k] : k \in 1..Len(q)} = S

\* app.py:226: unique_ids[i:i + 50], with positions counted from 0
AnalyzeBatch(unique_ids, i) ==
    SubSeq(unique_ids, i + 1, Min(Len(unique_ids), i + ANALYZE_BATCH))

\* app.py:233-263: a row per item of the answer; the remote answers for all
\* ids of the batch, for all but the first, or for none, and the rows carry
\* the channel of the snippet, 0 when the item has none
AnalyzedRows(batch) ==
    {[k \in 1..Len(found) |-> [id |-> found[k], channelId |-> channel]] :
        found \in {batch, Tail(batch), <<>>}, channel \in Channels \cup {0}}

\* app.py:274-281, the frame of the rows and the cost
BaReturn(rows, cost) ==
    /\ ba_pc' = "returned"
    /\ ba_result' = [rows |-> rows, cost |-> cost]

\* app.py:225, the end of one turn of the batch loop
BaEndOfBatchRetries(rows, cost) == UNCHANGED <<ba_i, ba_pc, ba_result>>

BaEndOfBatch(rows, cost) ==
    IF ba_i + ANALYZE_BATCH >= Len(ba_unique_ids)
    THEN /\ BaReturn(rows, cost)
         /\ UNCHANGED ba_i
    ELSE /\ ba_i' = ba_i + ANALYZE_BATCH
         /\ UNCHANGED <<ba_pc, ba_result>>

\* app.py:221-225, a fresh invocation; main never calls it without ids
BaEnter(video_ids) ==
    /\ ba_pc' = "batch"
    /\ ba_unique_ids' = SomeSeq(video_ids)
    /\ ba_i' = 0
    /\ ba_quota_cost' = 0
    /\ ba_analyzed_data' = <<>>
    /\ ba_calls' = <<>>
    /\ ba_result' = [rows |-> <<>>, cost |-> 0]

\* batch_analyze_videos has returned to main
BaLeave ==
    /\ ba_pc' = "idle"
    /\ ba_unique_ids' = <<>>
    /\ ba_i' = 0
    /\ ba_quota_cost' = 0
    /\ ba_analyzed_data' = <<>>
    /\ ba_calls' = <<>>
    /\ ba_result' = [rows |-> <<>>, cost |-> 0]

\* what an action of batch_analyze_videos leaves alone
not_ba ==
    <<rm_snippets, sv_vars, tv_vars, gc_vars, lg_vars, fn_vars,
      m_pc, m_outcome, m_args, m_videos, m_cost, m_c_ids, m_c_cost,
      m_sv_cache, m_gc_cache, m_runs, m_issued, m_rows_before,
      m_credentials, m_form, m_cat_cached>>

\* app.py:227-231 and 265-266, the videos call raises HttpError: the error
\* is shown and the loop goes on with the next batch
BA_BatchFails ==
    /\ UNCHANGED not_ba
    /\ ba_pc = "batch"
    /\ ba_calls' = Append(ba_calls, [ids |-> AnalyzeBatch(ba_unique_ids, ba_i), ok |-> FALSE])
    /\ BaEndOfBatch(ba_analyzed_data, ba_quota_cost)
    /\ UNCHANGED <<ba_unique_ids, ba_quota_cost, ba_analyzed_data>>

\* app.py:227-263, the videos call answers
BA_Batch ==
    /\ UNCHANGED not_ba
    /\ ba_pc = "batch"
    /\ LET batch == AnalyzeBatch(ba_unique_ids, ba_i) IN
       \E rows \in AnalyzedRows(batch) :
          /\ ba_calls' = Append(ba_calls, [ids |-> batch, ok |-> TRUE])
          /\ ba_quota_cost' = ba_quota_cost + ANALYZE_COST
          /\ ba_analyzed_data' = ba_analyzed_data \o rows
          /\ BaEndOfBatch(ba_analyzed_data \o rows, ba_quota_cost + ANALYZE_COST)
    /\ UNCHANGED ba_unique_ids

\* batch_analyze_videos is not running
BaIdle ==
    /\ ba_pc = "idle"
    /\ ba_unique_ids = <<>>
    /\ ba_i = 0
    /\ ba_quota_cost = 0
    /\ ba_analyzed_data = <<>>
    /\ ba_calls = <<>>
    /\ ba_result = [rows |-> <<>>, cost |-> 0]

\* no script run of main
MOff ==
    /\ m_pc = "off"
    /\ m_outcome = None
    /\ m_args = [target_total |-> 1, include_cat_ids |-> <<>>,
                 exclude_words_list |-> <<>>]
    /\ m_videos = <<>>
    /\ m_cost = 0
    /\ m_c_ids = {}
    /\ m_c_cost = 0
    /\ m_sv_cache = {}
    /\ m_gc_cache = {}
    /\ m_runs = 0
    /\ m_issued = [search |-> 0, videos |-> 0, channels |-> 0,
                   categories |-> 0, analysis |-> 0]
    /\ m_rows_before = 0
    /\ m_use_shared_key = FALSE
    /\ m_usage = NoEstimate
    /\ m_tool = None
    /\ m_search_topic = ""
    /\ m_column = <<>>
    /\ m_cat_cached = FALSE

\* no script run of main and no invocation of batch_analyze_videos
MIdle == MOff /\ BaIdle


(***************************************************************************)
(* parse_duration, app.py:30-39 and youtubeV2.py:36-46 (the same code)     *)
(***************************************************************************)
\* the characters of a duration text; "D" is also any character the
\* pattern has no use for
DurationChars == {"P", "T", "H", "M", "S", "D", "1", "2"}
Digits == {"1", "2"}
DigitValue(c) == IF c = "1" THEN 1 ELSE 2

\* the texts handed to parse_duration; the empty one is also a missing
\* value, which "if not duration_iso" treats alike
Durations == UNION {[1..n -> DurationChars] : n \in 0..MaxDurationLen}

\* \d+ at position i: the length of the longest run of digits from there
DigitRun(s, i) ==
    LET F[k \in i..(Len(s) + 1)] ==
            IF k > Len(s) \/ s[k] \notin Digits THEN 0
            ELSE IF k = Len(s) THEN 1 ELSE 1 + F[k + 1]
    IN IF i > Len(s) THEN 0 ELSE F[i]

\* int(...) of the n digits from position i
Number(s, i, n) ==
    LET F[k \in 0..n] ==
            IF k = 0 THEN 0 ELSE 10 * F[k - 1] + DigitValue(s[i + k - 1])
    IN F[n]

\* (?:(\d+)X)? at position i: the group matches a run of digits followed
\* by the letter, or it matches nothing
Component(s, i, letter) ==
    LET n == DigitRun(s, i) IN
    IF n > 0 /\ i + n <= Len(s) /\ s[i + n] = letter
    THEN [present |-> TRUE, value |-> Number(s, i, n), next |-> i + n + 1]
    ELSE [present |-> FALSE, value |-> 0, next |-> i]

\* re.match: the pattern is matched at the start of the text and what
\* follows the match is not looked at
parse_duration(duration_iso) ==
    IF duration_iso = <<>> THEN 0
    ELSE IF ~(Len(duration_iso) >= 2 /\ duration_iso[1] = "P" /\ duration_iso[2] = "T")
    THEN 0
    ELSE LET hours == Component(duration_iso, 3, "H")
             minutes == Component(duration_iso, hours.next, "M")
             seconds == Component(duration_iso, minutes.next, "S")
         IN hours.value * 3600 + minutes.value * 60 + seconds.value

PD_Return ==
    /\ UNCHANGED not_fn
    /\ pd_pc = "called"
    /\ pd_pc' = "returned"
    /\ pd_result' = parse_duration(pd_duration_iso)
    /\ UNCHANGED <<pd_duration_iso, ev_vars, fl_vars, cm_vars>>

\* parse_duration is not running
PdIdle ==
    /\ pd_pc = "idle"
    /\ pd_duration_iso = <<>>
    /\ pd_result = 0

(***************************************************************************)
(* extract_video_id, app.py:65-77                                          *)
(***************************************************************************)
\* app.py:71, the length of an id
ID_LEN == 11

\* [0-9A-Za-z_-], as far as the pieces below use it
IdChars ==
    {"d", "Q", "w", "4", "9", "W", "g", "X", "c", "y", "o", "u", "t", "b", "e",
     "a", "h", "n", "l", "m", "p", "s", "v", "U", "C"}

\* the line feed
NL == "\n"

\* a video id
VID == <<"d", "Q", "w", "4", "w", "9", "W", "g", "X", "c", "Q">>

\* the pieces the tokens of an uploaded column are made of
Segments ==
    {VID,
     <<"y", "o", "u", "t", "u", ".", "b", "e", "/">>,
     <<"w", "a", "t", "c", "h", "?", "v", "=">>,
     <<"e", "m", "b", "e", "d", "/">>,
     <<"c", "h", "a", "n", "n", "e", "l", "/">>,
     <<"h", "t", "t", "p", "s", ":", "/", "/">>,
     <<"U", "C", "u">>,
     <<"&">>,
     <<" ">>,
     <<NL>>}

RECURSIVE Concat(_)
Concat(segments) ==
    IF segments = <<>> THEN <<>> ELSE Head(segments) \o Concat(Tail(segments))

\* the tokens handed to extract_video_id
Tokens == {Concat(segments) : segments \in UNION {[1..n -> Segments] : n \in 0..MaxSegments}}

\* app.py:71, the alternatives of the non-capturing group, in their order
Prefixes ==
    << <<"v", "=">>,
       <<"/">>,
       <<"y", "o", "u", "t", "u", ".", "b", "e", "/">>,
       <<"e", "m", "b", "e", "d", "/">> >>

\* the text t stands in s at position p
StandsAt(s, p, t) ==
    /\ p + Len(t) - 1 <= Len(s)
    /\ \A k \in 1..Len(t) : s[p + k - 1] = t[k]

\* [0-9A-Za-z_-]{11} stands in s at position p
IdAt(s, p) ==
    /\ p + ID_LEN - 1 <= Len(s)
    /\ \A k \in p..(p + ID_LEN - 1) : s[k] \in IdChars

\* app.py:71-72, the pattern matches in s from position p with
\* alternative a
MatchesAt(s, p, a) ==
    /\ StandsAt(s, p, Prefixes[a])
    /\ IdAt(s, p + Len(Prefixes[a]))

\* app.py:72-74, re.search: the leftmost match, and at one position the
\* first alternative that matches; group(1) is the eleven characters
SearchGroup(s) ==
    LET starts == {p \in 1..Len(s) : \E a \in 1..Len(Prefixes) : MatchesAt(s, p, a)} IN
    IF starts = {} THEN <<>>
    ELSE LET p == CHOOSE q \in starts : \A r \in starts : q <= r
             a == CHOOSE b \in 1..Len(Prefixes) :
                      /\ MatchesAt(s, p, b)
                      /\ \A c \in 1..(b - 1) : ~MatchesAt(s, p, c)
         IN SubSeq(s, p + Len(Prefixes[a]), p + Len(Prefixes[a]) + ID_LEN - 1)

\* app.py:75, ^[0-9A-Za-z_-]{11}$: $ also matches before a final line feed
StandaloneId(s) ==
    /\ IdAt(s, 1)
    /\ \/ Len(s) = ID_LEN
       \/ Len(s) = ID_LEN + 1 /\ s[Len(s)] = NL

\* app.py:65-77
extract_video_id(is_str, url_or_id) ==
    IF ~is_str THEN <<>>
    ELSE IF SearchGroup(url_or_id) # <<>> THEN SearchGroup(url_or_id)
    ELSE IF StandaloneId(url_or_id) THEN url_or_id
    ELSE <<>>

EV_Return ==
    /\ UNCHANGED not_fn
    /\ ev_pc = "called"
    /\ ev_pc' = "returned"
    /\ ev_result' = extract_video_id(ev_is_str, ev_url_or_id)
    /\ UNCHANGED <<pd_vars, fl_vars, cm_vars, ev_is_str, ev_url_or_id>>

\* extract_video_id is not running
EvIdle ==
    /\ ev_pc = "idle"
    /\ ev_is_str = TRUE
    /\ ev_url_or_id = <<>>
    /\ ev_result = <<>>

(***************************************************************************)
(* The flattening of one video: app.py:393-430 and youtubeV2.py:234-297    *)
(***************************************************************************)
\* a video as the flattening reads it: its counts, whether publishedAt is
\* missing, parses or does not parse, and the days from then to now
FlatVideos ==
    [module : {"app", "youtubeV2"}, views : 0..MaxCount, likes : 0..MaxCount,
     comments : 0..MaxCount, published : {"parsed"}, days_live : (-1)..MaxDaysLive]
    \cup
    [module : {"app", "youtubeV2"}, views : 0..MaxCount, likes : 0..MaxCount,
     comments : 0..MaxCount, published : {"missing", "unparseable"}, days_live : {0}]

\* round(x, 2) and f"{x:.2f}" of x = num / den with den > 0, in hundredths:
\* the nearest hundredth, a tie going to the even one
Round2(num, den) ==
    LET q == (num * 100) \div den
        r == (num * 100) % den
    IN IF 2 * r < den THEN q
       ELSE IF 2 * r > den THEN q + 1
       ELSE IF q % 2 = 0 THEN q ELSE q + 1

\* app.py:400, youtubeV2.py:285: "if views > 0"
HasViewsOrNone(views) == views >= 0

HasViews(views) == views > 0

\* app.py:400-401 and 428-429: (count / views * 100) if views > 0 else 0,
\* rounded; the division raises ZeroDivisionError on views = 0
RatioPercent(count, views) ==
    IF HasViews(views)
    THEN IF views = 0 THEN [raises |-> TRUE, hundredths |-> 0]
         ELSE [raises |-> FALSE, hundredths |-> Round2(count * 100, views)]
    ELSE [raises |-> FALSE, hundredths |-> 0]

\* app.py:403-408 and 426, youtubeV2.py:271-283 and 296: the average of
\* the views over the days live, rounded; a date that does not parse raises
\* ValueError, which youtubeV2.py turns into "N/A"
AvgViewsPerDay(video) ==
    IF video.published = "missing"
    THEN [raises |-> FALSE, na |-> FALSE, hundredths |-> 0]
    ELSE IF video.published = "unparseable"
    THEN [raises |-> (video.module = "app"), na |-> (video.module = "youtubeV2"),
          hundredths |-> 0]
    ELSE IF video.days_live > 0
    THEN [raises |-> FALSE, na |-> FALSE,
          hundredths |-> Round2(video.views, video.days_live)]
    ELSE [raises |-> FALSE, na |-> FALSE, hundredths |-> video.views * 100]

NoRecord == [like_ratio |-> 0, comment_ratio |-> 0, avg_views |-> 0, avg_na |-> FALSE]

\* the video is flattened, or the script run ends with the exception
FL_Return ==
    /\ UNCHANGED not_fn
    /\ fl_pc = "called"
    /\ LET like_ratio == RatioPercent(fl_video.likes, fl_video.views)
           comment_ratio == RatioPercent(fl_video.comments, fl_video.views)
           avg == AvgViewsPerDay(fl_video)
       IN IF like_ratio.raises \/ comment_ratio.raises \/ avg.raises
          THEN /\ fl_pc' = "raised"
               /\ fl_record' = NoRecord
          ELSE /\ fl_pc' = "returned"
               /\ fl_record' = [like_ratio |-> like_ratio.hundredths,
                                comment_ratio |-> comment_ratio.hundredths,
                                avg_views |-> avg.hundredths, avg_na |-> avg.na]
    /\ UNCHANGED <<pd_vars, ev_vars, cm_vars, fl_video>>

\* no video is being flattened
FlIdle ==
    /\ fl_pc = "idle"
    /\ fl_video = [module |-> "app", views |-> 0, likes |-> 0, comments |-> 0,
                   published |-> "missing", days_live |-> 0]
    /\ fl_record = NoRecord

(***************************************************************************)
(* get_category_map under st.cache_data, app.py:81-90                      *)
(***************************************************************************)
\* region codes; main passes "US" only (app.py:332)
RegionCodes == {"US", "NL"}

\* the maps the remote answers with, as sets of <<id, title>>
CategoryMaps == {{}, {<<"c1", "Music">>}, {<<"c1", "Music">>, <<"c2", "News">>}}

\* app.py:81: the entries st.cache_data holds for the arguments; the
\* service object is no part of the key (leading underscore)
CategoryCacheMisses(cache, region_code) == {}

CategoryCacheHits(cache, region_code) == {e \in cache : e.key = region_code}

\* app.py:81-82, a call of the memoised function: a stored value is
\* returned at once, otherwise the body runs
CM_Call ==
    /\ UNCHANGED not_fn
    /\ cm_pc = "idle"
    /\ Len(cm_returns) < MaxCategoryCalls
    /\ \E region_code \in RegionCodes :
          /\ cm_region_code' = region_code
          /\ IF CategoryCacheHits(cm_cache, region_code) # {}
             THEN LET hit == CHOOSE e \in CategoryCacheHits(cm_cache, region_code) : TRUE IN
                  /\ cm_returns' = Append(cm_returns,
                                          [region_code |-> region_code,
                                           category_map |-> hit.value, remote |-> FALSE])
                  /\ UNCHANGED cm_pc
             ELSE /\ cm_pc' = "list"
                  /\ UNCHANGED cm_returns
    /\ UNCHANGED <<cm_cache, cm_calls, pd_vars, ev_vars, fl_vars>>

\* the body has returned: st.cache_data stores the value (no ttl)
CmReturn(category_map) ==
    /\ cm_pc' = "idle"
    /\ cm_cache' = cm_cache \cup {[key |-> cm_region_code, value |-> category_map]}
    /\ cm_returns' = Append(cm_returns,
                            [region_code |-> cm_region_code,
                             category_map |-> category_map, remote |-> TRUE])

\* app.py:85-90, the videoCategories call answers
CM_List ==
    /\ UNCHANGED not_fn
    /\ cm_pc = "list"
    /\ cm_calls' = Append(cm_calls, [region_code |-> cm_region_code, ok |-> TRUE])
    /\ \E category_map \in CategoryMaps : CmReturn(category_map)
    /\ UNCHANGED <<cm_region_code, pd_vars, ev_vars, fl_vars>>

\* app.py:85-86 and 89-90, the videoCategories call raises HttpError:
\* pass, and the empty map is returned
CM_ListFails ==
    /\ UNCHANGED not_fn
    /\ cm_pc = "list"
    /\ cm_calls' = Append(cm_calls, [region_code |-> cm_region_code, ok |-> FALSE])
    /\ CmReturn({})
    /\ UNCHANGED <<cm_region_code, pd_vars, ev_vars, fl_vars>>

\* get_category_map has not been called
CmIdle ==
    /\ cm_pc = "idle"
    /\ cm_region_code = "US"
    /\ cm_cache = {}
    /\ cm_calls = <<>>
    /\ cm_returns = <<>>

\* none of the helper functions is running
FnIdle == PdIdle /\ EvIdle /\ FlIdle /\ CmIdle

(***************************************************************************)
(* main, the Run Search handler of the Placement Finder, app.py:284-386    *)
(***************************************************************************)
\* st.session_state.visit_id of the session whose script runs
Visit == "s1"

\* usage_log.csv as earlier sessions of the day have left it
PriorLedgers ==
    {<<>>} \cup {<<HeaderRow, DataRow(1, units)>> : units \in LogUnits \ {0}}

\* the arguments the form passes to search_videos, app.py:371-376
MainArgs ==
    [target_total : 1..MaxMainTarget,
     include_cat_ids : {<<>>},
     exclude_words_list : {<<>>}]

\* the text of the Search Query box
SearchTopics == {"", "q"}

\* list(channel_ids), app.py:100
SetToSeq(S) ==
    LET F[k \in 0..Cardinality(S)] ==
            IF k = 0 THEN <<>>
            ELSE Append(F[k - 1],
                        CHOOSE c \in S : Cardinality({d \in S : d < c}) = k - 1)
    IN F[Cardinality(S)]

NoCallsIssued ==
    [search |-> 0, videos |-> 0, channels |-> 0, categories |-> 0, analysis |-> 0]

\* the entry st.cache_data holds for these arguments
\* an entry holds the key, the value returned and, for the record, whether
\* a remote call of the invocation that returned it had failed
CacheHits(cache, key) == {e \in cache : e.key = key}

\* get_channel_stats has returned to main
GcLeave ==
    /\ gc_pc' = "idle"
    /\ gc_unique_ids_list' = <<>>
    /\ gc_i' = 0
    /\ gc_quota_cost' = 0
    /\ gc_channel_data_map' = {}
    /\ gc_calls' = <<>>
    /\ gc_result' = [map |-> {}, cost |-> 0]

\* app.py:365
QueryMissingNever(search_topic) == FALSE

QueryMissing(search_topic) == search_topic = ""

\* the columns of an uploaded file, after dropna().astype(str)
MainColumns ==
    {<<>>} \cup {<<token>> : token \in {VID, <<" ">>, <<"/">> \o VID \o <<"U", "C", "u">>}}

\* app.py:685-691, the ids extract_video_id finds in the column
ExtractedIds(column) ==
    {extract_video_id(TRUE, column[k]) : k \in 1..Len(column)} \ {<<>>}

\* the key st.cache_data makes of channel_ids: a set (app.py:383) and a
\* list (app.py:708) of the same ids are different keys
GcKey(c_ids, tool) == [ids |-> c_ids, as_list |-> (tool = "analyzer")]

\* app.py:331, get_category_map in the script run of a click: a remote
\* call unless st.cache_data holds its result
ClickIssued ==
    [NoCallsIssued EXCEPT !.categories = IF m_cat_cached THEN 0 ELSE 1]

\* app.py:287-289, the first script run of the session
M_NewVisit ==
    /\ m_pc = "start"
    /\ m_pc' = "visit"
    /\ LuEnter(Visit, 0)
    /\ UNCHANGED <<m_outcome, m_args, m_videos, m_cost, m_c_ids, m_c_cost,
                   m_sv_cache, m_gc_cache, m_runs, m_issued, m_rows_before>>
    /\ UNCHANGED <<rm_snippets, sv_vars, tv_vars, gc_vars, fn_vars>>
    /\ UNCHANGED <<m_credentials, m_form, m_cat_cached, ba_vars>>

\* app.py:329-363, log_usage has returned, get_category_map answers or
\* raises HttpError (an empty map), either of which st.cache_data keeps,
\* and the form is drawn
M_Ready ==
    /\ m_pc = "visit"
    /\ lu_pc[Visit] = "idle"
    /\ m_pc' = "ready"
    /\ m_cat_cached' = TRUE
    /\ m_outcome' = None
    /\ UNCHANGED <<m_args, m_videos, m_cost, m_c_ids, m_c_cost,
                   m_sv_cache, m_gc_cache, m_runs, m_issued, m_rows_before>>
    /\ UNCHANGED <<rm_snippets, sv_vars, tv_vars, gc_vars, lg_vars, fn_vars>>
    /\ UNCHANGED <<m_credentials, m_form, ba_vars>>

\* app.py:329-335, build or get_category_map raises anything else:
\* "Failed to init API", the script run ends and nothing is cached
M_InitFails ==
    /\ m_pc = "visit"
    /\ lu_pc[Visit] = "idle"
    /\ m_outcome' = "init_failed"
    /\ UNCHANGED <<m_pc, m_args, m_videos, m_cost, m_c_ids, m_c_cost,
                   m_sv_cache, m_gc_cache, m_runs, m_issued, m_rows_before>>
    /\ UNCHANGED <<rm_snippets, sv_vars, tv_vars, gc_vars, lg_vars, fn_vars>>
    /\ UNCHANGED <<m_credentials, m_form, m_cat_cached, ba_vars>>

\* app.py:300-313, the credentials of a script run: with the shared key the
\* usage is estimated and shown, and unpacking a bare float raises
\* TypeError, which the except clause turns into a warning; api_key is set
\* before the estimate in either case
Credentials(use_shared_key) ==
    /\ m_use_shared_key' = use_shared_key
    /\ m_usage' = IF use_shared_key
                  THEN estimate_daily_usage(lg_exists, lg_rows, today)
                  ELSE NoEstimate

\* app.py:309, "Shared quota exhausted." is on the screen
QuotaExhaustedShown(usage) ==
    /\ usage.shape = "pair"
    /\ usage.percent.num >= usage.percent.den

\* app.py:296-376, the script run of a click on Run Search: the
\* credentials, the query check and the memoised call of search_videos
M_RunSearch ==
    /\ m_pc \in {"ready", "done"}
    /\ m_runs < MaxRuns
    /\ \E use_shared_key \in BOOLEAN : Credentials(use_shared_key)
    /\ m_runs' = m_runs + 1
    /\ m_issued' = ClickIssued
    /\ m_cat_cached' = TRUE
    /\ m_rows_before' = Len(lg_rows)
    /\ m_tool' = "finder"
    /\ \E search_topic \in SearchTopics, args \in MainArgs :
          /\ m_args' = args
          /\ m_search_topic' = search_topic
          /\ IF QueryMissing(search_topic)
             THEN /\ m_pc' = "done"
                  /\ m_outcome' = "invalid"
                  /\ UNCHANGED <<m_videos, m_cost, sv_vars>>
             ELSE IF CacheHits(m_sv_cache, args) # {}
             THEN LET hit == CHOOSE e \in CacheHits(m_sv_cache, args) : TRUE IN
                  /\ m_pc' = "got_videos"
                  /\ m_videos' = hit.value.videos
                  /\ m_cost' = hit.value.cost
                  /\ UNCHANGED <<m_outcome, sv_vars>>
             ELSE /\ m_pc' = "in_search"
                  /\ SvEnter(args)
                  /\ UNCHANGED <<m_outcome, m_videos, m_cost>>
    /\ UNCHANGED <<m_c_ids, m_c_cost, m_sv_cache, m_gc_cache, m_column, ba_vars>>
    /\ UNCHANGED <<rm_snippets, tv_vars, gc_vars, lg_vars, fn_vars>>

\* app.py:371, search_videos returns and st.cache_data stores the pair
M_SearchReturns ==
    /\ m_pc = "in_search"
    /\ sv_pc = "returned"
    /\ m_pc' = "got_videos"
    /\ m_videos' = sv_result.videos
    /\ m_cost' = sv_result.cost
    /\ m_sv_cache' = m_sv_cache \cup {[key |-> m_args, value |-> sv_result,
                                       failed |-> (sv_end = "error")]}
    /\ m_issued' = [m_issued EXCEPT
                       !.search = Len(SelectSeq(sv_calls, LAMBDA c : c.api = "search")),
                       !.videos = Len(SelectSeq(sv_calls, LAMBDA c : c.api = "videos"))]
    /\ SvFresh("idle", sv_args)
    /\ UNCHANGED <<m_outcome, m_args, m_c_ids, m_c_cost, m_gc_cache, m_runs,
                   m_rows_before>>
    /\ UNCHANGED <<rm_snippets, tv_vars, gc_vars, lg_vars, fn_vars>>
    /\ UNCHANGED <<m_credentials, m_form, m_cat_cached, ba_vars>>

\* app.py:371, search_videos raises: nothing in main catches it, the
\* script run ends and nothing is stored in the cache
M_SearchRaises ==
    /\ m_pc = "in_search"
    /\ sv_pc = "raised"
    /\ m_pc' = "done"
    /\ m_outcome' = "exception"
    /\ m_issued' = [m_issued EXCEPT
                       !.search = Len(SelectSeq(sv_calls, LAMBDA c : c.api = "search")),
                       !.videos = Len(SelectSeq(sv_calls, LAMBDA c : c.api = "videos"))]
    /\ SvFresh("idle", sv_args)
    /\ UNCHANGED <<m_args, m_videos, m_cost, m_c_ids, m_c_cost, m_sv_cache,
                   m_gc_cache, m_runs, m_rows_before>>
    /\ UNCHANGED <<rm_snippets, tv_vars, gc_vars, lg_vars, fn_vars>>
    /\ UNCHANGED <<m_credentials, m_form, m_cat_cached, ba_vars>>

\* app.py:383-386 and 708-720: the memoised call of get_channel_stats, and
\* on a cache hit the call of log_usage with the two costs
ChannelLookup(c_ids, tool, v_cost) ==
    /\ m_c_ids' = c_ids
    /\ IF CacheHits(m_gc_cache, GcKey(c_ids, tool)) # {}
       THEN LET hit == CHOOSE e \in CacheHits(m_gc_cache, GcKey(c_ids, tool)) : TRUE IN
            /\ m_pc' = "in_log"
            /\ m_c_cost' = hit.value.cost
            /\ LuEnter(Visit, v_cost + hit.value.cost)
            /\ UNCHANGED <<m_outcome, gc_vars>>
       ELSE /\ m_pc' = "in_channels"
            /\ gc_pc' = "called"
            /\ gc_unique_ids_list' = SetToSeq(c_ids)
            /\ UNCHANGED <<m_outcome, m_c_cost, gc_i, gc_quota_cost,
                           gc_channel_data_map, gc_calls, gc_result,
                           lg_vars>>

\* app.py:378-386: no videos ends the run; otherwise the channels of the
\* videos are looked up
M_AfterSearch ==
    /\ m_pc = "got_videos"
    /\ IF m_videos = <<>>
       THEN /\ m_pc' = "done"
            /\ m_outcome' = "no_results"
            /\ UNCHANGED <<m_c_ids, m_c_cost, gc_vars, lg_vars>>
       ELSE ChannelLookup({m_videos[k].channelId : k \in 1..Len(m_videos)},
                          m_tool, m_cost)
    /\ UNCHANGED <<m_args, m_videos, m_cost, m_sv_cache, m_gc_cache, m_runs,
                   m_issued, m_rows_before>>
    /\ UNCHANGED <<rm_snippets, sv_vars, tv_vars, fn_vars>>
    /\ UNCHANGED <<m_credentials, m_form, m_cat_cached, ba_vars>>

\* app.py:296-335 and 684-701, the script run of a click on Analyze
\* Placements: the credentials, the ids of the column, the check for none
\* and the call of batch_analyze_videos
M_Analyze ==
    /\ m_pc \in {"ready", "done"}
    /\ m_runs < MaxRuns
    /\ \E use_shared_key \in BOOLEAN : Credentials(use_shared_key)
    /\ m_runs' = m_runs + 1
    /\ m_issued' = ClickIssued
    /\ m_cat_cached' = TRUE
    /\ m_rows_before' = Len(lg_rows)
    /\ m_tool' = "analyzer"
    /\ \E column \in MainColumns :
          /\ m_column' = column
          /\ IF ExtractedIds(column) = {}
             THEN /\ m_pc' = "done"
                  /\ m_outcome' = "invalid"
                  /\ UNCHANGED ba_vars
             ELSE /\ m_pc' = "in_analysis"
                  /\ BaEnter(ExtractedIds(column))
                  /\ UNCHANGED m_outcome
    /\ UNCHANGED <<m_args, m_videos, m_cost, m_c_ids, m_c_cost, m_sv_cache,
                   m_gc_cache, m_search_topic>>
    /\ UNCHANGED <<rm_snippets, sv_vars, tv_vars, gc_vars, lg_vars, fn_vars>>

\* app.py:701-709, batch_analyze_videos returns: no rows ends the run;
\* otherwise the channels of the rows are looked up
M_AnalysisReturns ==
    /\ m_pc = "in_analysis"
    /\ ba_pc = "returned"
    /\ m_issued' = [m_issued EXCEPT !.analysis = Len(ba_calls)]
    /\ m_cost' = ba_result.cost
    /\ BaLeave
    /\ IF ba_result.rows = <<>>
       THEN /\ m_pc' = "done"
            /\ m_outcome' = "no_data"
            /\ UNCHANGED <<m_c_ids, m_c_cost, gc_vars, lg_vars>>
       ELSE ChannelLookup({ba_result.rows[k].channelId : k \in 1..Len(ba_result.rows)} \ {0},
                          m_tool, ba_result.cost)
    /\ UNCHANGED <<m_args, m_videos, m_sv_cache, m_gc_cache, m_runs,
                   m_rows_before>>
    /\ UNCHANGED <<rm_snippets, sv_vars, tv_vars, fn_vars>>
    /\ UNCHANGED <<m_credentials, m_form, m_cat_cached>>

\* app.py:384-386 and 709-720, get_channel_stats returns, st.cache_data
\* stores the pair, and log_usage is called with the two costs
M_ChannelsReturn ==
    /\ m_pc = "in_channels"
    /\ gc_pc = "returned"
    /\ m_pc' = "in_log"
    /\ m_c_cost' = gc_result.cost
    /\ m_gc_cache' = m_gc_cache \cup {[key |-> GcKey(m_c_ids, m_tool), value |-> gc_result,
                                       failed |-> (\E k \in 1..Len(gc_calls) : ~gc_calls[k].ok)]}
    /\ m_issued' = [m_issued EXCEPT !.channels = Len(gc_calls)]
    /\ GcLeave
    /\ LuEnter(Visit, m_cost + gc_result.cost)
    /\ UNCHANGED <<m_outcome, m_args, m_videos, m_cost, m_c_ids, m_sv_cache,
                   m_runs, m_rows_before>>
    /\ UNCHANGED <<rm_snippets, sv_vars, tv_vars, fn_vars>>
    /\ UNCHANGED <<m_credentials, m_form, m_cat_cached, ba_vars>>

\* app.py:386- and 720-, log_usage has returned and the results are shown
M_LogDone ==
    /\ m_pc = "in_log"
    /\ lu_pc[Visit] = "idle"
    /\ m_pc' = "done"
    /\ m_outcome' = "results"
    /\ UNCHANGED <<m_args, m_videos, m_cost, m_c_ids, m_c_cost, m_sv_cache,
                   m_gc_cache, m_runs, m_issued, m_rows_before>>
    /\ UNCHANGED <<rm_snippets, sv_vars, tv_vars, gc_vars, lg_vars, fn_vars>>
    /\ UNCHANGED <<m_credentials, m_form, m_cat_cached, ba_vars>>

\* app.py:92 and 155, ttl=3600: the cached entries expire between two runs
M_CacheExpires ==
    /\ m_pc \in {"ready", "done"}
    /\ m_sv_cache # {} \/ m_gc_cache # {}
    /\ m_sv_cache' = {}
    /\ m_gc_cache' = {}
    /\ UNCHANGED <<m_pc, m_outcome, m_args, m_videos, m_cost, m_c_ids, m_c_cost,
                   m_runs, m_issued, m_rows_before>>
    /\ UNCHANGED <<rm_snippets, sv_vars, tv_vars, gc_vars, lg_vars, fn_vars>>
    /\ UNCHANGED <<m_credentials, m_form, m_cat_cached, ba_vars>>

(***************************************************************************)
(* SpecSearch: one invocation of search_videos with any arguments.         *)
(***************************************************************************)
InitSearch ==
    /\ rm_snippets = Snippets
    /\ MIdle
    /\ FnIdle
    /\ sv_pc = "search"
    /\ sv_args \in SearchArgs
    /\ sv_i = 0
    /\ sv_next_page_token = NoToken
    /\ sv_quota_cost = 0
    /\ sv_all_videos = <<>>
    /\ sv_video_ids = <<>>
    /\ sv_fetched_videos = <<>>
    /\ sv_j = 0
    /\ sv_resp_token = NoToken
    /\ sv_request = NoRequest
    /\ sv_result = NoResult
    /\ sv_calls = <<>>
    /\ sv_page_start = [videos |-> <<>>, cost |-> 0]
    /\ sv_end = None
    /\ TvIdle
    /\ GcIdle
    /\ LgStart

NextSearch ==
    \/ SV_SearchFails
    \/ SV_Search
    \/ SV_DetailsFails
    \/ SV_Details
    \/ SV_Filter
    \/ SV_NextPage

SpecSearch == InitSearch /\ [][NextSearch]_vars

\* search_videos is not running
SvIdle ==
    /\ sv_pc = "idle"
    /\ sv_args = [target_total |-> 1, include_cat_ids |-> <<>>,
                  exclude_words_list |-> <<>>]
    /\ sv_i = 0
    /\ sv_next_page_token = NoToken
    /\ sv_quota_cost = 0
    /\ sv_all_videos = <<>>
    /\ sv_video_ids = <<>>
    /\ sv_fetched_videos = <<>>
    /\ sv_j = 0
    /\ sv_resp_token = NoToken
    /\ sv_request = NoRequest
    /\ sv_result = NoResult
    /\ sv_calls = <<>>
    /\ sv_page_start = [videos |-> <<>>, cost |-> 0]
    /\ sv_end = None

(***************************************************************************)
(* SpecTop: one invocation of get_top_videos with any arguments.           *)
(***************************************************************************)
InitTop ==
    /\ rm_snippets = Snippets
    /\ MIdle
    /\ FnIdle
    /\ tv_pc = "search"
    /\ tv_args \in TopArgs
    /\ tv_i = 0
    /\ tv_next_page_token = NoToken
    /\ tv_all_videos = <<>>
    /\ tv_video_ids = <<>>
    /\ tv_fetched_videos = <<>>
    /\ tv_j = 0
    /\ tv_above = <<>>
    /\ tv_resp_token = NoToken
    /\ tv_request = NoTopRequest
    /\ tv_result = [is_none |-> TRUE, videos |-> <<>>]
    /\ tv_calls = <<>>
    /\ tv_below = NoItem
    /\ tv_end = None
    /\ SvIdle

    /\ GcIdle
    /\ LgStart

NextTop ==
    \/ TV_SearchFails
    \/ TV_Search
    \/ TV_DetailsFails
    \/ TV_Details
    \/ TV_Filter
    \/ TV_NextPage

SpecTop == InitTop /\ [][NextTop]_vars

(***************************************************************************)
(* SpecPaginators: one invocation of search_videos or of get_top_videos.   *)
(***************************************************************************)
InitPaginators == InitSearch \/ InitTop

NextPaginators ==
    \/ SV_SearchFails
    \/ SV_Search
    \/ SV_DetailsFails
    \/ SV_Details
    \/ SV_Filter
    \/ SV_NextPage
    \/ TV_SearchFails
    \/ TV_Search
    \/ TV_DetailsFails
    \/ TV_Details
    \/ TV_Filter
    \/ TV_NextPage

SpecPaginators == InitPaginators /\ [][NextPaginators]_vars

(***************************************************************************)
(* SpecAnalyze: one invocation of batch_analyze_videos with any ids.       *)
(***************************************************************************)
InitAnalyze ==
    /\ rm_snippets = Snippets
    /\ MOff
    /\ FnIdle
    /\ ba_pc = "batch"
    /\ ba_unique_ids \in {[k \in 1..n |-> k] : n \in 1..MaxChannels}
    /\ ba_i = 0
    /\ ba_quota_cost = 0
    /\ ba_analyzed_data = <<>>
    /\ ba_calls = <<>>
    /\ ba_result = [rows |-> <<>>, cost |-> 0]
    /\ SvIdle
    /\ TvIdle
    /\ GcIdle
    /\ LgStart

NextAnalyze ==
    \/ BA_BatchFails
    \/ BA_Batch

SpecAnalyze == InitAnalyze /\ [][NextAnalyze]_vars

(***************************************************************************)
(* SpecChannels: one invocation of get_channel_stats with any ids.         *)
(***************************************************************************)
InitChannels ==
    /\ rm_snippets = Snippets
    /\ MIdle
    /\ FnIdle
    /\ gc_pc = "called"
    /\ gc_unique_ids_list \in {[k \in 1..n |-> k] : n \in 0..MaxChannels}
    /\ gc_i = 0
    /\ gc_quota_cost = 0
    /\ gc_channel_data_map = {}
    /\ gc_calls = <<>>
    /\ gc_result = [map |-> {}, cost |-> 0]
    /\ SvIdle
    /\ TvIdle
    /\ LgStart

NextChannels ==
    \/ GC_Start
    \/ GC_BatchFails
    \/ GC_Batch

SpecChannels == InitChannels /\ [][NextChannels]_vars

(***************************************************************************)
(* SpecCalls: one invocation of one of the four functions that call the    *)
(* remote in a loop.                                                       *)
(***************************************************************************)
InitCalls == InitSearch \/ InitTop \/ InitChannels \/ InitAnalyze

NextCalls ==
    \/ SV_SearchFails
    \/ SV_Search
    \/ SV_DetailsFails
    \/ SV_Details
    \/ SV_Filter
    \/ SV_NextPage
    \/ TV_SearchFails
    \/ TV_Search
    \/ TV_DetailsFails
    \/ TV_Details
    \/ TV_Filter
    \/ TV_NextPage
    \/ GC_Start
    \/ GC_BatchFails
    \/ GC_Batch
    \/ BA_BatchFails
    \/ BA_Batch

SpecCalls == InitCalls /\ [][NextCalls]_vars

(***************************************************************************)
(* SpecLedger: the sessions of a deployment log usage and read the daily   *)
(* estimate, from the state in which the ledger file does not exist yet.   *)
(***************************************************************************)
InitLedger ==
    /\ rm_snippets = Snippets
    /\ MIdle
    /\ FnIdle
    /\ LgStart
    /\ SvIdle
    /\ TvIdle
    /\ GcIdle

NextLedger ==
    \/ \E s \in Sessions : LU_Call(s)
    \/ \E s \in Sessions : LU_Check(s)
    \/ \E s \in Sessions : LU_Open(s)
    \/ \E s \in Sessions : LU_OpenFails(s)
    \/ \E s \in Sessions : LU_Write(s)
    \/ \E s \in Sessions : LU_WriteFails(s)
    \/ Estimate
    \/ Tick

SpecLedger == InitLedger /\ [][NextLedger]_vars

(***************************************************************************)
(* SpecMain: one session of the Placement Finder pressing Run Search.      *)
(***************************************************************************)
InitMain ==
    /\ rm_snippets = PlainSnippets
    /\ m_pc = "start"
    /\ m_outcome = None
    /\ m_args = [target_total |-> 1, include_cat_ids |-> <<>>,
                 exclude_words_list |-> <<>>]
    /\ m_videos = <<>>
    /\ m_cost = 0
    /\ m_c_ids = {}
    /\ m_c_cost = 0
    /\ m_sv_cache = {}
    /\ m_gc_cache = {}
    /\ m_runs = 0
    /\ m_issued = NoCallsIssued
    /\ m_rows_before = 0
    /\ m_use_shared_key = FALSE
    /\ m_usage = NoEstimate
    /\ m_tool = None
    /\ m_search_topic = ""
    /\ m_column = <<>>
    /\ m_cat_cached = FALSE
    /\ BaIdle
    /\ FnIdle
    /\ SvIdle
    /\ TvIdle
    /\ GcIdle
    /\ lg_rows \in PriorLedgers
    /\ lg_exists = (lg_rows # <<>>)
    /\ today = 1
    /\ lu_pc = [s \in Sessions |-> "idle"]
    /\ lu_file_exists = [s \in Sessions |-> FALSE]
    /\ lu_quota_units = [s \in Sessions |-> 0]
    /\ lu_calls = 0
    /\ est_result = NoEstimate

NextMain ==
    \/ M_NewVisit
    \/ M_Ready
    \/ M_InitFails
    \/ M_RunSearch
    \/ M_Analyze
    \/ BA_BatchFails
    \/ BA_Batch
    \/ M_AnalysisReturns
    \/ SV_SearchFails
    \/ SV_Search
    \/ SV_DetailsFails
    \/ SV_Details
    \/ SV_Filter
    \/ SV_NextPage
    \/ M_SearchReturns
    \/ M_SearchRaises
    \/ M_AfterSearch
    \/ GC_Start
    \/ GC_BatchFails
    \/ GC_Batch
    \/ M_ChannelsReturn
    \/ LU_Check(Visit)
    \/ LU_Open(Visit)
    \/ LU_OpenFails(Visit)
    \/ LU_Write(Visit)
    \/ LU_WriteFails(Visit)
    \/ M_LogDone
    \/ M_CacheExpires

SpecMain == InitMain /\ [][NextMain]_vars

(***************************************************************************)
(* SpecDuration: parse_duration applied to any text.                       *)
(***************************************************************************)
InitDuration ==
    /\ rm_snippets = Snippets
    /\ MIdle
    /\ SvIdle
    /\ TvIdle
    /\ GcIdle
    /\ LgStart
    /\ pd_pc = "called"
    /\ pd_duration_iso \in Durations
    /\ pd_result = 0
    /\ EvIdle
    /\ FlIdle
    /\ CmIdle

NextDuration == PD_Return

SpecDuration == InitDuration /\ [][NextDuration]_vars

(***************************************************************************)
(* SpecExtract: extract_video_id applied to any token.                     *)
(***************************************************************************)
InitExtract ==
    /\ rm_snippets = Snippets
    /\ MIdle
    /\ SvIdle
    /\ TvIdle
    /\ GcIdle
    /\ LgStart
    /\ PdIdle
    /\ FlIdle
    /\ ev_pc = "called"
    /\ ev_is_str \in BOOLEAN
    /\ ev_url_or_id \in Tokens
    /\ ev_result = <<>>
    /\ CmIdle

NextExtract == EV_Return

SpecExtract == InitExtract /\ [][NextExtract]_vars

(***************************************************************************)
(* SpecFlatten: the flattening of any video.                               *)
(***************************************************************************)
InitFlatten ==
    /\ rm_snippets = Snippets
    /\ MIdle
    /\ SvIdle
    /\ TvIdle
    /\ GcIdle
    /\ LgStart
    /\ PdIdle
    /\ EvIdle
    /\ fl_pc = "called"
    /\ fl_video \in FlatVideos
    /\ fl_record = NoRecord
    /\ CmIdle

NextFlatten == FL_Return

SpecFlatten == InitFlatten /\ [][NextFlatten]_vars

(***************************************************************************)
(* SpecCategories: the calls of get_category_map in the life of a process. *)
(***************************************************************************)
InitCategories ==
    /\ rm_snippets = Snippets
    /\ MIdle
    /\ SvIdle
    /\ TvIdle
    /\ GcIdle
    /\ LgStart
    /\ FnIdle

NextCategories ==
    \/ CM_Call
    \/ CM_List
    \/ CM_ListFails

SpecCategories == InitCategories /\ [][NextCategories]_vars

\* the calls of one kind in a call log
CallsOf(calls, api) == {k \in 1..Len(calls) : calls[k].api = api}

\* C1: whatever the remote answers and wherever it fails, search_videos
\* returns a list of at most target_total videos.
C1_SearchReturnsAtMostTarget ==
    sv_pc = "returned" => Len(sv_result.videos) <= sv_args.target_total

\* the target is reached in the middle of a page that holds more videos
C1_Witness ==
    /\ sv_pc = "returned"
    /\ sv_end = "target"
    /\ Len(sv_result.videos) = sv_args.target_total
    /\ sv_j <= Len(sv_fetched_videos)
    /\ sv_resp_token # NoToken

\* C4: a failure on page k is caught, and search_videos returns the
\* survivors of pages 1..k-1 with the cost accumulated so far; no failure of
\* a remote call or of a response with missing fields leaves search_videos
\* as an exception.
C4_NoFailureEscapes ==
    /\ sv_pc # "raised"
    /\ (sv_pc = "returned" /\ sv_end = "error") =>
          /\ sv_result.videos = sv_page_start.videos
          /\ sv_result.cost = sv_quota_cost

\* C5: on every return path the returned cost is 100 per search call issued
\* plus 1 per details call issued.
C5_CostCountsIssuedCalls ==
    sv_pc = "returned" =>
        sv_result.cost = SEARCH_COST * Cardinality(CallsOf(sv_calls, "search"))
                         + DETAILS_COST * Cardinality(CallsOf(sv_calls, "videos"))

\* C2: get_top_videos returns at most total_results_target videos, with or
\* without min_views, also when the target is no multiple of 50.
C2_TopReturnsAtMostTarget ==
    tv_pc = "returned" =>
        Len(tv_result.videos) <= tv_args.total_results_target

\* video a comes before video b in the order the details items are read
Before(a, b) == a[1] < b[1] \/ (a[1] = b[1] /\ a[2] < b[2])

\* C3: once get_top_videos has read a video below min_views, it has
\* returned: every video of the result was read before that video, and no
\* call was issued for a later page.
C3_EarlyStop ==
    tv_below # NoItem =>
        /\ tv_pc = "returned"
        /\ tv_result.videos = tv_all_videos
        /\ \A k \in 1..Len(tv_all_videos) : Before(tv_all_videos[k].id, tv_below)
        /\ \A k \in 1..Len(tv_calls) : tv_calls[k].page <= tv_below[1]

\* the run stopped at a video below the threshold although a video above
\* it follows on the page, a token was returned and pages remain
C3_Witness ==
    /\ tv_below # NoItem
    /\ tv_pc = "returned"
    /\ tv_resp_token # NoToken
    /\ tv_i + 1 < pages_to_fetch(tv_args.total_results_target)
    /\ \E k \in (tv_j + 1)..Len(tv_fetched_videos) :
          tv_fetched_videos[k].viewCount >= tv_args.min_views

\* ceil(n / d)
CeilDiv(n, d) == (n + d - 1) \div d

\* C6: for n channel ids get_channel_stats issues ceil(n/50) calls of at
\* most 50 ids each, every id in exactly one call, and returns as cost the
\* number of calls issued, whether or not they succeeded.
C6_ChannelBatchesAndCost ==
    gc_pc = "returned" =>
        /\ Len(gc_calls) = CeilDiv(Len(gc_unique_ids_list), CHANNEL_BATCH)
        /\ \A k \in 1..Len(gc_calls) : Len(gc_calls[k].ids) <= CHANNEL_BATCH
        /\ \A id \in SeqToSet(gc_unique_ids_list) :
              Cardinality({k \in 1..Len(gc_calls) :
                              id \in SeqToSet(gc_calls[k].ids)}) = 1
        /\ gc_result.cost = Len(gc_calls)

\* the ratio p equals min(units / DAILY_QUOTA_LIMIT, 1)
IsClampedFraction(p, units) ==
    IF units >= DAILY_QUOTA_LIMIT
    THEN p.num = p.den
    ELSE p.num * DAILY_QUOTA_LIMIT = units * p.den

\* C7: estimate_daily_usage returns the pair (min(S / 10000, 1.0), S), S
\* being the sum of Quota_Units over the rows dated today.
C7_DailyUsagePair ==
    est_result.shape # "none" =>
        /\ est_result.shape = "pair"
        /\ est_result.units = SumToday(lg_rows, today)
        /\ IsClampedFraction(est_result.percent, SumToday(lg_rows, today))

\* the ledger cannot be read: no file, an empty file, or no header line
LedgerUnreadable == ~lg_exists \/ ReadCsvFails(lg_rows)

\* C8: whenever the ledger cannot be read, also before the first record
\* call when the file does not exist, estimate_daily_usage returns the
\* pair (0.0, 0).
C8_UnreadableGivesZeroPair ==
    (est_result.shape # "none" /\ LedgerUnreadable) =>
        /\ est_result.shape = "pair"
        /\ est_result.units = 0
        /\ est_result.percent.num = 0

\* a row after the header line that is no well-formed log row
Malformed(rows) == {k \in 2..Len(rows) : rows[k].header}

\* C9: a malformed row is skipped: with one in a readable ledger the
\* returned units are still the sum over the well-formed rows dated today.
C9_MalformedRowSkipped ==
    (est_result.shape # "none" /\ ~LedgerUnreadable /\ Malformed(lg_rows) # {}) =>
        /\ est_result.shape = "pair"
        /\ est_result.units = SumToday(lg_rows, today)

\* the units of the rows appended to the ledger since the last click
UnitsAppended ==
    LET F[k \in m_rows_before..Len(lg_rows)] ==
            IF k = m_rows_before THEN 0 ELSE F[k - 1] + NumericUnits(lg_rows[k])
    IN F[Len(lg_rows)]

\* the cost of the remote calls issued since the last click
IssuedCost ==
    SEARCH_COST * m_issued.search + DETAILS_COST * m_issued.videos
        + CHANNEL_COST * m_issued.channels

\* C10: after any Search Run, whatever its outcome, the units appended to
\* the ledger for that run equal the cost of the remote calls the run
\* issued: 100 per search page, 1 per details batch, 1 per channel batch.
C10_LedgerRecordsIssuedCalls ==
    (m_pc = "done" /\ m_tool = "finder") => UnitsAppended = IssuedCost

\* C11: once estimate_daily_usage has reported a fraction of 1.0 for the
\* shared credential, no Search Run that adds cost to the ledger is started
\* with that credential.
C11_NoRunOnceExhausted ==
    ~(/\ m_pc = "in_search"
      /\ m_use_shared_key
      /\ QuotaExhaustedShown(m_usage))

\* the exclude-category sets a search filter may carry; search_videos has
\* no parameter for one, so its run is the same under each of them
ExcludeCategorySets == (SUBSET Categories) \ {{}}

\* C12: whichever exclude-category set is configured, no item whose
\* category is in it is ever appended to the result, also when that
\* category is in the inclusion list as well (exclusion wins).
C12_ExcludedCategoryNeverAppended ==
    \A excluded \in ExcludeCategorySets :
        \A k \in 1..Len(sv_all_videos) :
            sv_all_videos[k].categoryId \notin excluded

\* the text from position a up to position b - 1 is empty or is a run of
\* digits followed by the letter
IsComponent(s, a, b, letter) ==
    \/ a = b
    \/ /\ b - a >= 2
       /\ s[b - 1] = letter
       /\ \A k \in a..(b - 2) : s[k] \in Digits

\* the positions at which a text of the form PT[hH][mM][sS] splits
Splits(s) ==
    IF Len(s) >= 2 /\ s[1] = "P" /\ s[2] = "T"
    THEN {ij \in (3..(Len(s) + 1)) \X (3..(Len(s) + 1)) :
            /\ ij[1] <= ij[2]
            /\ IsComponent(s, 3, ij[1], "H")
            /\ IsComponent(s, ij[1], ij[2], "M")
            /\ IsComponent(s, ij[2], Len(s) + 1, "S")}
    ELSE {}

\* the digits before the letter of a component, as a number
ComponentValue(s, a, b) == IF a = b THEN 0 ELSE Number(s, a, b - 1 - a)

\* 3600*h + 60*m + s of a well-formed text, 0 of any other
DurationSeconds(s) ==
    IF Splits(s) = {} THEN 0
    ELSE LET ij == CHOOSE x \in Splits(s) : TRUE IN
         3600 * ComponentValue(s, 3, ij[1]) + 60 * ComponentValue(s, ij[1], ij[2])
             + ComponentValue(s, ij[2], Len(s) + 1)

\* C15: parse_duration returns 3600*h + 60*m + s for every text of the form
\* PT[hH][mM][sS] and 0 for every missing or malformed one, a well-formed
\* prefix followed by garbage and components in the wrong order included.
C15_ParseDuration ==
    pd_pc = "returned" => pd_result = DurationSeconds(pd_duration_iso)

\* an id stands in s at position p and ends there: no further character
\* of the id alphabet follows it
WholeIdAt(s, p) ==
    /\ IdAt(s, p)
    /\ p + ID_LEN <= Len(s) => s[p + ID_LEN] \notin IdChars

\* the id of a token that is a standalone id or has one of the known URL
\* shapes, <<>> for every other token
VideoIdOf(s) ==
    LET starts == {p \in 1..Len(s) : \E a \in 1..Len(Prefixes) :
                      /\ StandsAt(s, p, Prefixes[a])
                      /\ WholeIdAt(s, p + Len(Prefixes[a]))} IN
    IF starts # {}
    THEN LET p == CHOOSE q \in starts : \A r \in starts : q <= r
             a == CHOOSE b \in 1..Len(Prefixes) :
                      /\ StandsAt(s, p, Prefixes[b])
                      /\ WholeIdAt(s, p + Len(Prefixes[b]))
         IN SubSeq(s, p + Len(Prefixes[a]), p + Len(Prefixes[a]) + ID_LEN - 1)
    ELSE IF Len(s) = ID_LEN /\ IdAt(s, 1) THEN s
    ELSE <<>>

\* C16: extract_video_id returns the 11-character id of a standalone id or
\* of a known URL shape, and none for every other token, also for one in
\* which a slash is followed by more than 11 characters of the id alphabet.
C16_ExtractVideoId ==
    ev_pc = "returned" =>
        ev_result = (IF ev_is_str THEN VideoIdOf(ev_url_or_id) ELSE <<>>)

\* the input of the last click is invalid: no search query, or a column
\* in which extract_video_id finds no id
InputInvalid ==
    \/ m_tool = "finder" /\ m_search_topic = ""
    \/ m_tool = "analyzer" /\ ExtractedIds(m_column) = {}

\* C13: on invalid input the validation message ends the script run and no
\* remote call (search, details, channel or category list) is issued.
C13_InvalidInputIssuesNoCall ==
    (m_tool # None /\ InputInvalid) =>
        /\ m_pc = "done"
        /\ m_outcome = "invalid"
        /\ m_issued = NoCallsIssued
        /\ sv_pc = "idle" /\ sv_calls = <<>>
        /\ gc_pc = "idle" /\ gc_calls = <<>>
        /\ ba_pc = "idle" /\ ba_calls = <<>>

\* an empty query after a search that found videos, and a column of
\* tokens none of which holds an id
C13_Witness ==
    /\ m_pc = "done"
    /\ InputInvalid
    /\ \/ m_tool = "finder" /\ m_sv_cache # {}
       \/ m_tool = "analyzer" /\ m_column # <<>>

\* C14 as claimed: with no views the two ratios are 0, and the average
\* views per day equal views / days_live when days_live >= 1 and the raw
\* view count when days_live <= 0.
C14_FlatteningDefaults ==
    /\ fl_pc # "raised" \/ fl_video.published = "unparseable"
    /\ fl_pc = "returned" =>
          /\ fl_video.views = 0 =>
                fl_record.like_ratio = 0 /\ fl_record.comment_ratio = 0
          /\ (fl_video.published = "parsed" /\ fl_video.days_live >= 1) =>
                fl_record.avg_views * fl_video.days_live = fl_video.views * 100
          /\ (fl_video.published = "parsed" /\ fl_video.days_live <= 0) =>
                fl_record.avg_views = fl_video.views * 100

\* a and b differ by at most c
Within(a, b, c) == a - b <= c /\ b - a <= c

\* C14 as amended: the average is views / days_live rounded to two
\* decimals, so it lies within 0.005 of views / days_live.
C14_FlatteningDefaultsRounded ==
    /\ fl_pc # "raised" \/ fl_video.published = "unparseable"
    /\ fl_pc = "returned" =>
          /\ fl_video.views = 0 =>
                fl_record.like_ratio = 0 /\ fl_record.comment_ratio = 0
          /\ (fl_video.published = "parsed" /\ fl_video.days_live >= 1) =>
                Within(2 * fl_record.avg_views * fl_video.days_live,
                       2 * fl_video.views * 100, fl_video.days_live)
          /\ (fl_video.published = "parsed" /\ fl_video.days_live <= 0) =>
                fl_record.avg_views = fl_video.views * 100

\* a video without views, published days ago, whose average is no whole
\* number of hundredths before it is rounded
C14_Witness ==
    /\ fl_pc = "returned"
    /\ fl_video.published = "parsed"
    /\ \/ fl_video.views = 0 /\ fl_video.days_live <= 0
       \/ /\ fl_video.days_live >= 1
          /\ (fl_video.views * 100) % fl_video.days_live # 0

\* the data rows of a ledger
DataRows(rows) == SelectSeq(rows, LAMBDA row : ~row.header)

\* C17: a call of log_usage always returns to its caller; when it failed
\* the ledger is as it was, and when it succeeded exactly one data row, the
\* caller's, has been appended and every earlier row is still in its place.
C17_LogUsageSwallowsAndAppends ==
    [][\A s \in Sessions :
          (lu_pc[s] # "idle" /\ lu_pc'[s] = "idle") =>
              \/ lg_rows' = lg_rows
              \/ /\ Len(lg_rows') > Len(lg_rows)
                 /\ SubSeq(lg_rows', 1, Len(lg_rows)) = lg_rows
                 /\ DataRows(lg_rows') =
                        Append(DataRows(lg_rows), DataRow(today, lu_quota_units[s]))]_vars

\* after a call that failed and a call that appended to rows already there
C17_Witness ==
    /\ \A s \in Sessions : lu_pc[s] = "idle"
    /\ Len(DataRows(lg_rows)) >= 2
    /\ Len(DataRows(lg_rows)) < lu_calls

\* the pages of a call log for which a details call was issued
PagesDetailed(calls) == {calls[k].page : k \in CallsOf(calls, "videos")}

\* the ways a run may end: target reached, no continuation token, no
\* identifier on a page, remote error, page budget exhausted
Endings == {"target", "no_token", "empty", "error", "budget"}

\* C18: search_videos issues at most floor(target_total/5) + 5 search
\* calls and get_top_videos at most ceil(target/50); each run ends by
\* exactly one of the five endings, and a page without identifiers gets no
\* details call.
C18_BoundedPagesAndEndings ==
    /\ Cardinality(CallsOf(sv_calls, "search")) <= (sv_args.target_total \div 5) + 5
    /\ Cardinality(CallsOf(tv_calls, "search")) * 50 < tv_args.total_results_target + 50
    /\ sv_pc \in {"returned", "raised"} => (sv_pc = "returned" /\ sv_end \in Endings)
    /\ tv_pc \in {"returned", "raised"} => (tv_pc = "returned" /\ tv_end \in Endings)
    /\ (sv_pc = "returned" /\ sv_end = "empty") => sv_i + 1 \notin PagesDetailed(sv_calls)
    /\ (tv_pc = "returned" /\ tv_end = "empty") => tv_i + 1 \notin PagesDetailed(tv_calls)

\* C19: search_videos issues a call only while the accumulator is below
\* target_total; once it holds target_total survivors the function has
\* returned exactly the first target_total of them in accumulation order,
\* and the details call of the page in progress is the last call issued,
\* whatever token and page budget remain.
C19_ReturnsAtTarget ==
    /\ sv_pc \in {"search", "details", "filter"} =>
          Len(sv_all_videos) < sv_args.target_total
    /\ Len(sv_all_videos) >= sv_args.target_total =>
          /\ sv_pc = "returned"
          /\ sv_end = "target"
          /\ sv_result.videos = SubSeq(sv_all_videos, 1, sv_args.target_total)
          /\ Len(sv_calls) = 2 * (sv_i + 1)
          /\ sv_calls[Len(sv_calls)] = [api |-> "videos", page |-> sv_i + 1, ok |-> TRUE]

\* the target is reached on a later page while a continuation token and
\* page budget remain
C19_Witness ==
    /\ sv_pc = "returned"
    /\ sv_end = "target"
    /\ sv_i >= 1
    /\ sv_args.target_total = MaxTarget
    /\ Len(sv_result.videos) = sv_args.target_total
    /\ sv_resp_token # NoToken
    /\ sv_i + 1 < max_pages_to_fetch(sv_args.target_total)

\* a call log in page order: search of page 1, details of page 1, search of
\* page 2, ..., every call but the last one answered
Sequential(calls) ==
    \A n \in 1..Len(calls) :
       /\ calls[n].page = (n + 1) \div 2
       /\ calls[n].api = IF n % 2 = 1 THEN "search" ELSE "videos"
       /\ n < Len(calls) => calls[n].ok

\* the last search request carries the token that the search response of
\* the page before it returned (page k's response returns token k or none),
\* and the request of page 1 carries none
CarriesToken(calls, request) ==
    LET page == (Len(calls) + 1) \div 2 IN
    IF calls = <<>>
    THEN ~request.sent
    ELSE /\ request.sent
         /\ request.pageToken = IF page = 1 THEN NoToken ELSE page - 1

\* C20: in search_videos and in get_top_videos the search call of page k+1
\* follows the answered search and details calls of page k, carries the
\* continuation token of page k's search response, and the first search
\* call carries no token.
C20_SequentialPagination ==
    /\ Sequential(sv_calls)
    /\ Sequential(tv_calls)
    /\ CarriesToken(sv_calls, sv_request)
    /\ CarriesToken(tv_calls, tv_request)

\* get_top_videos has issued the search call of its second page
C20_Witness ==
    /\ Len(tv_calls) >= 3
    /\ tv_calls[3].api = "search"
    /\ tv_request.pageToken = 1
    /\ tv_next_page_token = 1

\* C21: get_channel_stats issues every batch whether or not an earlier one
\* failed; no id of a failed batch is in the returned mapping and every id
\* a successful batch returned is in it.
C21_FailedBatchSkipped ==
    gc_pc = "returned" =>
        /\ Len(gc_calls) = CeilDiv(Len(gc_unique_ids_list), CHANNEL_BATCH)
        /\ \A k \in 1..Len(gc_calls) :
              /\ gc_calls[k].ids = Batch(gc_unique_ids_list, (k - 1) * CHANNEL_BATCH)
              /\ ~gc_calls[k].ok => SeqToSet(gc_calls[k].ids) \cap gc_result.map = {}
              /\ gc_calls[k].ok => gc_calls[k].found \subseteq gc_result.map

\* the first of three batches failed, the two after it answered
C21_Witness ==
    /\ gc_pc = "returned"
    /\ Len(gc_calls) = 3
    /\ ~gc_calls[1].ok
    /\ gc_calls[2].ok /\ gc_calls[2].found # {}
    /\ gc_calls[3].ok /\ gc_calls[3].found # {}
    /\ gc_result.map # {}

\* two characters that are the same letter, whatever their case
SameLetter(a, b) == a = b \/ {a, b} \in {{"s", "S"}, {"x", "X"}}

\* the term occurs in the text, case ignored
OccursIn(term, text) ==
    \E k \in 0..(Len(text) - Len(term)) :
       \A n \in 1..Len(term) : SameLetter(term[n], text[k + n])

\* the video's title or description holds one of the exclude terms
HoldsExcludeTerm(video, terms) ==
    \E k \in 1..Len(terms) :
       OccursIn(terms[k], video.title) \/ OccursIn(terms[k], video.description)

\* C22: no video that search_videos accumulated or returned holds an
\* exclude term in its title or description, whatever its category and
\* the inclusion list, so none counts toward target_total.
C22_NoExcludedTermReturned ==
    /\ \A k \in 1..Len(sv_all_videos) :
          ~HoldsExcludeTerm(sv_all_videos[k], sv_args.exclude_words_list)
    /\ \A k \in 1..Len(sv_result.videos) :
          ~HoldsExcludeTerm(sv_result.videos[k], sv_args.exclude_words_list)

\* with no inclusion list, a video of the first page was dropped for an
\* exclude term and a later one of the page was returned
C22_Witness ==
    /\ sv_pc = "returned"
    /\ sv_args.exclude_words_list # <<>>
    /\ sv_args.include_cat_ids = <<>>
    /\ sv_i = 0
    /\ Len(sv_result.videos) = 1
    /\ sv_j - 1 > Len(sv_all_videos)

\* C23: a search request of search_videos carries videoCategoryId exactly
\* when one inclusion category is given, and then that category; with two
\* or more inclusion categories every accumulated or returned video has a
\* category among them; with no inclusion category (and no exclude word)
\* every video read so far was accumulated.
C23_CategoryFilter ==
    LET included == sv_args.include_cat_ids IN
    /\ sv_request.sent =>
          /\ (sv_request.videoCategoryId # None) <=> (Len(included) = 1)
          /\ Len(included) = 1 => sv_request.videoCategoryId = included[1]
    /\ Len(included) >= 2 =>
          /\ \A k \in 1..Len(sv_all_videos) :
                \E n \in 1..Len(included) : sv_all_videos[k].categoryId = included[n]
          /\ \A k \in 1..Len(sv_result.videos) :
                \E n \in 1..Len(included) : sv_result.videos[k].categoryId = included[n]
    /\ (included = <<>> /\ sv_args.exclude_words_list = <<>>
        /\ sv_i = 0 /\ sv_pc \in {"filter", "returned"} /\ sv_j >= 1) =>
          Len(sv_all_videos) = sv_j - 1

\* two inclusion categories: the request went out without videoCategoryId,
\* a video of the first page was dropped for its category and a later one
\* was returned
C23_Witness ==
    /\ sv_pc = "returned"
    /\ Len(sv_args.include_cat_ids) = 2
    /\ sv_args.exclude_words_list = <<>>
    /\ sv_request.sent
    /\ sv_request.videoCategoryId = None
    /\ sv_i = 0
    /\ Len(sv_result.videos) = 1
    /\ sv_j - 1 > Len(sv_all_videos)

\* a paginator's call log names no call twice and holds no call after a
\* failed one
OncePerPage(calls) ==
    /\ \A a, b \in 1..Len(calls) :
          (calls[a].api = calls[b].api /\ calls[a].page = calls[b].page) => a = b
    /\ \A n \in 1..Len(calls) : ~calls[n].ok => n = Len(calls)

\* a batch loop's call log asks for no id twice
OncePerBatch(calls) ==
    \A a, b \in 1..Len(calls) :
       a # b => SeqToSet(calls[a].ids) \cap SeqToSet(calls[b].ids) = {}

\* C24: within one invocation no remote call is issued twice, failed or
\* not, and in search_videos and get_top_videos a failed call is the last
\* call of the invocation.
C24_EachCallOnce ==
    /\ OncePerPage(sv_calls)
    /\ OncePerPage(tv_calls)
    /\ OncePerBatch(gc_calls)
    /\ OncePerBatch(ba_calls)

\* batch_analyze_videos went on after a failed first batch, and the failed
\* batch was not asked for again
C24_Witness ==
    /\ ba_pc = "returned"
    /\ Len(ba_calls) = 3
    /\ ~ba_calls[1].ok
    /\ ba_calls[2].ok
    /\ ~ba_calls[3].ok

\* main has just been handed a value by st.cache_data, no remote call
\* issued, and the invocation that had returned that value ended with or
\* went through a remote failure
ServedFailedSearch ==
    /\ m_pc = "got_videos"
    /\ m_issued.search = 0
    /\ \E e \in CacheHits(m_sv_cache, m_args) : e.failed

ServedFailedChannels ==
    /\ m_pc = "in_log"
    /\ m_issued.channels = 0
    /\ \E e \in CacheHits(m_gc_cache, GcKey(m_c_ids, m_tool)) : e.failed

\* C25: a call of search_videos or get_channel_stats with the arguments of
\* an earlier invocation that met a remote failure is never answered from
\* the cache with that invocation's result.
C25_FailureNotCached ==
    /\ ~ServedFailedSearch
    /\ ~ServedFailedChannels

\* C26: whatever the interleaving of the sessions' log_usage calls, a
\* ledger that holds rows holds the header row as its first row and nowhere
\* else, every other row is a complete data row, and there are no more data
\* rows than calls.
C26_LedgerNeverCorrupted ==
    /\ lg_rows # <<>> =>
          /\ lg_rows[1] = HeaderRow
          /\ \A k \in 2..Len(lg_rows) : lg_rows[k] # HeaderRow
    /\ Len(DataRows(lg_rows)) <= lu_calls

C28_ReturnedAboveThreshold ==
    (tv_pc = "returned" /\ tv_args.min_views # NoMinViews) =>
        LET returned == tv_result.videos IN
        /\ \A k \in 1..Len(returned) : returned[k].viewCount >= tv_args.min_views
        /\ \A a, b \in 1..Len(returned) :
              a < b => Before(returned[a].id, returned[b].id)
        /\ \A k \in 1..Len(returned) :
              \/ returned[k].id[2] = 1
              \/ /\ k > 1
                 /\ returned[k - 1].id = <<returned[k].id[1], returned[k].id[2] - 1>>
        /\ \A k \in 1..Len(returned) :
              returned[k].id[1] = tv_i + 1 =>
                  returned[k] = tv_fetched_videos[returned[k].id[2]]

\* the second page's call failed after a first page of videos at or above
\* the threshold
C28_Witness ==
    /\ tv_pc = "returned"
    /\ tv_end = "error"
    /\ tv_args.min_views >= 1
    /\ tv_i = 1
    /\ Len(tv_result.videos) >= 2

====
